---- MODULE Spec2Model ----
(***************************************************************************)
(* Conversational request pipeline of the WeChat bot:                      *)
(*   - AIClient (src/ai_client.py): per-conversation lock, history         *)
(*     registry with TTL/LRU pruning, retry loop of generate_reply;        *)
(*   - WeChatBot (src/backend/bot.py): limiter semaphore, configuration    *)
(*     reload, debounce coalescer (schedule_merged_reply/wait_and_reply).  *)
(* Spec        : generate_reply calls with TTL/LRU pruning and a clock.    *)
(* SpecLimiter : handle_event under the semaphore, with config reloads.    *)
(* SpecRetry   : generate_reply under every configured max_retries.        *)
(* SpecFail    : generate_reply and generate_reply_stream, failing calls.  *)
(* SpecCancel  : handle_event tasks that may be cancelled.                 *)
(* SpecRegistry: the history registry under TTL, LRU bound and reloads.    *)
(* SpecMerge   : the debounce coalescer with a discrete clock.             *)
(***************************************************************************)
EXTENDS Integers, Sequences, FiniteSets, TLC

(***************************************************************************)
(* Bounds of the model                                                     *)
(***************************************************************************)
MaxReq == 3          \* pipeline executions issued in one behaviour
MaxTime == 2         \* last value of the discrete clock
MaxReloads == 1      \* configuration reloads in one behaviour
NumChats == 3        \* conversation ids
MaxMsgs == 3         \* inbound events given to the coalescer in one behaviour
MaxClock == 5        \* last value of the clock in SpecMerge
MaxChunks == 2       \* fragments one streamed call yields
MaxStreams == 1      \* streamed calls in one behaviour
MaxCalls == 2        \* calls in SpecFail and SpecRegistry
MaxTasks == 2        \* handle_event tasks in SpecCancel

(***************************************************************************)
(* Program constants and configuration                                     *)
(***************************************************************************)
MAX_RETRIES == 2             \* ai_client.py: MAX_RETRIES
DefaultMaxConcurrency == 5   \* bot.py: bot_cfg.get("max_concurrency", 5)
BaseDelayMs == 600           \* ai_client.py: wait = 0.6 * (1.5**attempt)
CfgMaxChats == 1             \* configured history_max_chats
CfgRounds == 2               \* configured context_rounds
CfgRetries == 1              \* configured max_retries of Spec
CfgTtl == 1                  \* configured history_ttl_sec of Spec
LimiterCap == 1              \* configured max_concurrency of SpecLimiter
merge_sec == 3               \* bot config merge_user_messages_sec (> 0)
CfgMaxWait == 4              \* configured merge_user_messages_max_wait_sec

Chats == 1..NumChats
Reqs == 1..MaxReq
LockIds == 1..(MaxReq + NumChats)  \* one lock object per execution or stored chat
Msgs == 1..MaxMsgs
TaskIds == 1..MaxMsgs        \* each accepted message creates one timer task
SemIds == 1..(MaxReloads + 1)

NoLock == 0                  \* dict.get() -> None
NoTask == 0
Fail == <<-1>>               \* "the attempt raised" (never a stripped reply)
None == <<>>                 \* generate_reply's None / falsy reply

\* Conversation ids are interchangeable names: an inbound event uses a chat
\* that was seen before or the next unused one
NextChats(used) == { c \in Chats : \A d \in 1..(c - 1) : d \in used }

Min(a, b) == IF a < b THEN a ELSE b
Max(a, b) == IF a > b THEN a ELSE b

VARIABLES
    now,                 \* time.time(), discrete
    \* ---- AIClient ----
    max_retries,         \* self.max_retries (after _coerce_retries)
    history_ttl_sec,     \* self.history_ttl_sec (0: None, TTL disabled)
    history_max_chats,   \* self.history_max_chats
    context_rounds,      \* self.context_rounds
    histories,           \* self._histories: OrderedDict, oldest first
    history_timestamps,  \* self._history_timestamps
    chat_locks,          \* self._chat_locks: chat -> lock object (or NoLock)
    lockOwner,           \* asyncio.Lock: holder of each lock object (0 free)
    lockWaiters,         \* asyncio.Lock: FIFO of waiters of each lock object
    nextLock,            \* next fresh lock object
    \* ---- WeChatBot limiter ----
    max_concurrency,     \* bot_cfg max_concurrency
    sem,                 \* self.sem: the current semaphore object
    semValue,            \* asyncio.Semaphore._value of each semaphore object
    reloads,             \* number of configuration reloads so far
    \* ---- pipeline executions (one task per inbound event) ----
    nextReq,             \* next execution to be created
    pc,                  \* position of each execution
    chatOf,              \* chat_id of each execution
    semOf,               \* semaphore object the execution entered
    lockOf,              \* lock object the execution obtained
    attempt,             \* loop variable of the retry loop
    posts,               \* transport calls issued by the execution
    fails,               \* transport attempts that failed
    snapshot,            \* history read by _build_messages
    result,              \* value returned by generate_reply
    lateCall,            \* the call was made after a call for the same chat had returned
    waits,               \* the asyncio.sleep(wait) calls of the retry loop, in ms
    streaming,           \* the call is generate_reply_stream
    reply_parts,         \* _stream: reply_parts of the current attempt
    sent_any,            \* _stream: sent_any
    yielded,             \* fragments given to the consumer: attempt and chunk
    appended,            \* argument "reply" of the call's _append_history (None: no call)
    raised,              \* the call ended by an exception leaving it
    fell_back,           \* main.handle_event issued its synchronous request after the stream
    stream_appended,     \* what the stream of the turn had appended by then
    \* ---- WeChatBot coalescer ----
    max_wait,                  \* bot config merge_user_messages_max_wait_sec
    pending_merge_messages,    \* chat -> accumulated texts (<<>>: no entry)
    pending_merge_events,      \* chat -> latest event (0: no entry)
    pending_merge_first_event, \* chat -> first event of the burst (0: no entry)
    pending_merge_first_ts,    \* chat -> arrival time of the first event
    pending_merge_tasks,       \* chat -> timer task (NoTask: no entry)
    tasks,                     \* wait_and_reply tasks: chat, due time, state, sleep elapsed
    nextTask,                  \* next task to be created
    nextMsg,                   \* next inbound event
    arrival,                   \* inbound events seen: chat, time, kind
    handled,                   \* handle_event calls made by the coalescer
    stopped,                   \* shutdown has run
    \* ---- a helper applied on its own ----
    fn,                        \* the helper under call ("none": no call)
    args,                      \* its arguments, by parameter name
    ret,                       \* the values it has returned, in order
    \* ---- the GUI lock (wx_lock) ----
    wx_lock,                   \* the execution inside "async with wx_lock" (0: free)
    wx_waiters,                \* executions queued on wx_lock, first come first
    sending,                   \* execution -> its place in send_reply_chunks
    sends,                     \* execution -> send_reply_chunks calls made
    \* ---- WeChatBot.run ----
    run_pc,                    \* position of run() ("none": run() was not called)
    init_result,               \* how initialize() ends
    stop_event,                \* self._stop_event.is_set()
    polls,                     \* iterations of the polling loop entered
    pending_tasks,             \* self.pending_tasks
    run_tasks,                 \* the tasks run() and its tasks created: kind, position, cancel request
    nextRunTask,               \* next task to be created
    gathered,                  \* the tasks given to asyncio.gather in shutdown
    closed,                    \* what shutdown has closed, in order
    \* ---- BotManager ----
    is_running,                \* self.is_running
    is_paused,                 \* self.is_paused
    bot,                       \* self.bot: the WeChatBot instance (0: None)
    bot_task,                  \* self.task: the _run_bot task (0: None)
    mgr_lock,                  \* BotManager._lock: the calls at "async with", holder first
    mgr_calls,                 \* the start/stop/restart/pause/resume calls made: op, position, result
    bot_tasks,                 \* the _run_bot tasks created, "running" or "finished"
    bot_is_paused,             \* WeChatBot._is_paused of each bot created
    paused_at,                 \* number of inbound events seen when pause() last succeeded
    \* ---- control commands (bot_control) ----
    bot_state,                 \* BotState: is_paused, pause_reason, pause_time
    control_allowed_users,     \* bot_cfg["control_allowed_users"], as a set
    last_event,                \* sender and content of the event checked most recently
    gate,                      \* execution -> how its event passed the command and response checks
    command_replies,           \* the command replies sent: execution and response
    \* ---- IPCManager (commands.json) ----
    cmd_file,                  \* content of self.cmd_file: the list of commands
    send_pc,                   \* web caller -> position in send_command
    send_commands,             \* web caller -> its local list "commands"
    get_pc,                    \* the bot's position in get_commands
    get_commands,              \* the local list "commands" of get_commands
    nextCmd,                   \* next unused command id
    cmd_sent,                  \* ids that send_command wrote and returned
    cmd_got                    \* the commands get_commands returned, in order

mergeVars == <<max_wait, pending_merge_messages, pending_merge_events,
               pending_merge_first_event, pending_merge_first_ts,
               pending_merge_tasks, tasks, nextTask, nextMsg, arrival,
               handled, stopped>>

pipeVars == <<max_retries, history_ttl_sec, max_concurrency, histories, history_timestamps, chat_locks,
              lockOwner, lockWaiters, nextLock, sem, semValue, reloads,
              nextReq, pc, chatOf, semOf, lockOf, attempt, posts, fails,
              snapshot, result, lateCall>>

streamVars == <<waits, streaming, reply_parts, sent_any, yielded, appended, raised,
                fell_back, stream_appended>>

cfgVars == <<history_max_chats, context_rounds>>

fnVars == <<fn, args, ret>>

guiVars == <<wx_lock, wx_waiters, sending, sends>>

runVars == <<run_pc, init_result, stop_event, polls, pending_tasks, run_tasks,
             nextRunTask, gathered, closed>>

\* the run() variables other than the stop event
runRest == <<run_pc, init_result, polls, pending_tasks, run_tasks, nextRunTask,
             gathered, closed>>

mgrVars == <<is_running, is_paused, bot, bot_task, mgr_lock, mgr_calls, bot_tasks,
             bot_is_paused, paused_at>>

cmdVars == <<bot_state, control_allowed_users, last_event, gate, command_replies>>

ipcVars == <<cmd_file, send_pc, send_commands, get_pc, get_commands, nextCmd, cmd_sent, cmd_got>>

ctlVars == <<runVars, mgrVars, cmdVars, ipcVars>>

vars == <<now, pipeVars, mergeVars, streamVars, cfgVars, fnVars, guiVars, ctlVars>>

(***************************************************************************)
(* Texts.  A text is a sequence of character codes.                        *)
(***************************************************************************)
SP == 32
NL == 10
IsSpace(ch) == ch \in {SP, NL}
UserText(r) == <<r>>
ReplyText(r) == <<100 + r>>

RECURSIVE LStrip(_)
LStrip(s) == IF s # <<>> /\ IsSpace(Head(s)) THEN LStrip(Tail(s)) ELSE s

RECURSIVE RStrip(_)
RStrip(s) ==
    IF s # <<>> /\ IsSpace(s[Len(s)]) THEN RStrip(SubSeq(s, 1, Len(s) - 1)) ELSE s

\* str.strip()
Strip(s) == RStrip(LStrip(s))

(***************************************************************************)
(* One transport attempt: the response the endpoint gives to execution r.  *)
(***************************************************************************)
Responses(r) ==
    { [exc |-> TRUE,  status |-> 0,   json |-> FALSE, error |-> FALSE, content |-> <<>>],
      [exc |-> FALSE, status |-> 500, json |-> TRUE,  error |-> FALSE, content |-> ReplyText(r)],
      [exc |-> FALSE, status |-> 200, json |-> FALSE, error |-> FALSE, content |-> <<>>],
      [exc |-> FALSE, status |-> 200, json |-> TRUE,  error |-> TRUE,  content |-> ReplyText(r)],
      [exc |-> FALSE, status |-> 200, json |-> TRUE,  error |-> FALSE, content |-> <<>>],
      [exc |-> FALSE, status |-> 200, json |-> TRUE,  error |-> FALSE, content |-> <<SP>>],
      [exc |-> FALSE, status |-> 200, json |-> TRUE,  error |-> FALSE,
       content |-> <<SP>> \o ReplyText(r) \o <<SP>>],
      [exc |-> FALSE, status |-> 302, json |-> TRUE,  error |-> FALSE, content |-> ReplyText(r)],
      [exc |-> FALSE, status |-> 200, json |-> TRUE,  error |-> FALSE, content |-> ReplyText(r)] }

\* body of the try block of generate_reply: the stripped reply, or Fail
ParseReply(resp) ==
    IF resp.exc THEN Fail
    ELSE IF resp.status >= 400 THEN Fail
    ELSE IF ~resp.json THEN Fail
    ELSE IF resp.error THEN Fail
    ELSE IF Strip(resp.content) = <<>> THEN Fail
    ELSE Strip(resp.content)

\* the exception class of a failed attempt: client.post raised, or one of
\* the "raise RuntimeError(...)" of the try block
ErrorClass(resp) == IF resp.exc THEN "httpx.HTTPError" ELSE "RuntimeError"

\* mutation: only RuntimeError is caught
Caught_mut(cls) == cls = "RuntimeError"

\* "except Exception as exc": CancelledError and GeneratorExit derive from
\* BaseException and pass through
Caught(cls) == cls \notin {"CancelledError", "GeneratorExit"}

\* _coerce_retries
CoerceRetries(v) == Min(IF v < 0 THEN 0 ELSE v, MAX_RETRIES)

RECURSIVE Pow(_, _)
Pow(b, n) == IF n = 0 THEN 1 ELSE b * Pow(b, n - 1)

\* mutation: the same wait before every retry
Wait_mut(a) == BaseDelayMs

\* "wait = 0.6 * (1.5**attempt)", in milliseconds
Wait(a) == (BaseDelayMs * Pow(3, a)) \div Pow(2, a)

\* mutation: the loop runs one iteration more
RetryAgain_mut(a) == a <= max_retries

\* "for attempt in range(self.max_retries + 1)" with "if attempt <
\* self.max_retries": another iteration of the retry loop follows attempt a
RetryAgain(a) == a < max_retries

(***************************************************************************)
(* History registry                                                        *)
(***************************************************************************)
NoTs == -1

Keys(h) == { h[i].id : i \in 1..Len(h) }

\* self._histories.get(chat_id, deque())
HistoryOf(h, c) ==
    IF c \in Keys(h)
    THEN (CHOOSE i \in 1..Len(h) : h[i].id = c)
    ELSE 0

TurnsOf(h, c) == IF HistoryOf(h, c) = 0 THEN <<>> ELSE h[HistoryOf(h, c)].turns

\* OrderedDict.pop(key, None)
RECURSIVE Without(_, _)
Without(h, cs) ==
    IF h = <<>> THEN <<>>
    ELSE IF Head(h).id \in cs THEN Without(Tail(h), cs)
    ELSE <<Head(h)>> \o Without(Tail(h), cs)

\* the registry as one value
Registry(h, ts, lk) == [h |-> h, ts |-> ts, lk |-> lk]

\* _prune_histories, TTL part
PruneTTL(reg, t) ==
    LET cutoff == t - history_ttl_sec
        expired == { c \in Chats : reg.ts[c] # NoTs /\ reg.ts[c] < cutoff }
    IN  IF history_ttl_sec > 0
        THEN Registry(Without(reg.h, expired),
                      [c \in Chats |-> IF c \in expired THEN NoTs ELSE reg.ts[c]],
                      [c \in Chats |-> IF c \in expired THEN NoLock ELSE reg.lk[c]])
        ELSE reg

\* _prune_histories, LRU part: popitem(last=False) while over the bound
RECURSIVE PruneLRU(_)
PruneLRU(reg) ==
    IF Len(reg.h) > history_max_chats
    THEN LET oldest == Head(reg.h).id
         IN  PruneLRU(Registry(Tail(reg.h),
                               [reg.ts EXCEPT ![oldest] = NoTs],
                               [reg.lk EXCEPT ![oldest] = NoLock]))
    ELSE reg

\* _prune_histories
Prune(reg, t) == PruneLRU(PruneTTL(reg, t))

\* mutation: the timestamp is updated but the entry keeps its place
Touch_mut(reg, c, t) == Registry(reg.h, [reg.ts EXCEPT ![c] = t], reg.lk)

\* _touch_history
Touch(reg, c, t) ==
    Registry(IF c \in Keys(reg.h)
             THEN Without(reg.h, {c}) \o <<reg.h[HistoryOf(reg.h, c)]>>
             ELSE reg.h,
             [reg.ts EXCEPT ![c] = t],
             reg.lk)

MaxMessages == Max(1, context_rounds) * 2

\* deque(maxlen=max_messages).append: the oldest entries fall out
Bounded(s) == IF Len(s) > MaxMessages THEN SubSeq(s, Len(s) - MaxMessages + 1, Len(s)) ELSE s

Turn(role, content) == [role |-> role, content |-> content]

\* an exchange of chat c committed before the behaviour starts
OldTurns(c) == <<Turn("user", <<200 + c>>), Turn("assistant", <<300 + c>>)>>

\* _append_history (context_max_tokens is None)
AppendHistory(reg, c, user_text, reply, t) ==
    LET old == TurnsOf(reg.h, c)
        new == Bounded(Bounded(old \o <<Turn("user", user_text)>>)
                       \o <<Turn("assistant", reply)>>)
        h2 == IF c \in Keys(reg.h)
              THEN [reg.h EXCEPT ![HistoryOf(reg.h, c)].turns = new]
              ELSE reg.h \o <<[id |-> c, turns |-> new]>>
    IN  Prune(Touch(Registry(h2, reg.ts, reg.lk), c, t), t)

\* the first lines of _build_messages: prune, read, touch when non-empty
BuildRegistry(reg, c, t) ==
    LET p == Prune(reg, t)
    IN  IF TurnsOf(p.h, c) # <<>> THEN Touch(p, c, t) ELSE p

BuildSnapshot(reg, c, t) == TurnsOf(Prune(reg, t).h, c)

CurReg == Registry(histories, history_timestamps, chat_locks)

(***************************************************************************)
(* Pipeline executions                                                     *)
(***************************************************************************)
\* positions at which the execution is inside "async with lock" of generate_reply
InLock(r) == pc[r] \in {"transport", "backoff", "yielded", "closing"}

\* positions at which the execution is inside "async with self.sem"
Admitted(r) ==
    pc[r] \in {"admitted", "lockwait", "transport", "backoff", "yielded", "replying"}

\* the execution is a handle_event task (it entered "async with self.sem")
UnderSem(r) == semOf[r] # 0

\* asyncio.Semaphore.locked(): no free slot, or earlier waiters
SemLocked(s) == semValue[s] = 0 \/ \E r \in Reqs : pc[r] = "semwait" /\ semOf[r] = s

\* asyncio.Lock.acquire without suspension: free and nobody queued
LockFree(l) == lockOwner[l] = 0 /\ lockWaiters[l] = <<>>

\* AIClient.__init__ and WeChatBot.__init__/_apply_config under configuration
\* (retries, ttl, cap)
\* (retries, ttl, cap, maxchats, rounds); stored is the number of chats that
\* already have a history of one exchange, chat 1 the least recently touched
ClientInit(retries, ttl, cap, maxchats, rounds, stored) ==
    /\ max_retries = CoerceRetries(retries)
    /\ history_ttl_sec = (IF ttl <= 0 THEN 0 ELSE ttl)
    /\ history_max_chats = Max(1, maxchats)
    /\ context_rounds = rounds
    /\ max_concurrency = Max(1, cap)
    /\ histories = [c \in 1..stored |-> [id |-> c, turns |-> OldTurns(c)]]
    /\ history_timestamps = [c \in Chats |-> IF c <= stored THEN 0 ELSE NoTs]
    /\ chat_locks = [c \in Chats |-> IF c <= stored THEN c ELSE NoLock]
    /\ lockOwner = [l \in LockIds |-> 0]
    /\ lockWaiters = [l \in LockIds |-> <<>>]
    /\ nextLock = stored + 1
    /\ sem = 1
    /\ semValue = [s \in SemIds |-> IF s = 1 THEN Max(1, cap) ELSE 0]
    /\ reloads = 0
    /\ nextReq = 1
    /\ pc = [r \in Reqs |-> "new"]
    /\ chatOf = [r \in Reqs |-> 1]
    /\ semOf = [r \in Reqs |-> 0]
    /\ lockOf = [r \in Reqs |-> NoLock]
    /\ attempt = [r \in Reqs |-> 0]
    /\ posts = [r \in Reqs |-> 0]
    /\ fails = [r \in Reqs |-> 0]
    /\ snapshot = [r \in Reqs |-> <<>>]
    /\ result = [r \in Reqs |-> None]
    /\ lateCall = [r \in Reqs |-> FALSE]
    /\ waits = [r \in Reqs |-> <<>>]
    /\ streaming = [r \in Reqs |-> FALSE]
    /\ reply_parts = [r \in Reqs |-> <<>>]
    /\ sent_any = [r \in Reqs |-> FALSE]
    /\ yielded = [r \in Reqs |-> <<>>]
    /\ appended = [r \in Reqs |-> None]
    /\ raised = [r \in Reqs |-> FALSE]
    /\ fell_back = [r \in Reqs |-> FALSE]
    /\ stream_appended = [r \in Reqs |-> None]

\* a new client: no history is stored
PipeInit(retries, ttl, cap) == ClientInit(retries, ttl, cap, CfgMaxChats, CfgRounds, 0)

\* WeChatBot.__init__: the coalescer's maps are empty
MergeInit(maxwait) ==
    /\ max_wait = maxwait
    /\ pending_merge_messages = [c \in Chats |-> <<>>]
    /\ pending_merge_events = [c \in Chats |-> 0]
    /\ pending_merge_first_event = [c \in Chats |-> 0]
    /\ pending_merge_first_ts = [c \in Chats |-> NoTs]
    /\ pending_merge_tasks = [c \in Chats |-> NoTask]
    /\ tasks = [t \in TaskIds |-> [chat |-> 0, due |-> 0, st |-> "none", fired |-> FALSE]]
    /\ nextTask = 1
    /\ nextMsg = 1
    /\ arrival = [m \in Msgs |-> [chat |-> 0, at |-> 0, kind |-> "none"]]
    /\ handled = <<>>
    /\ stopped = FALSE

\* no helper is under call on its own
NoCall == fn = "none" /\ args = <<>> /\ ret = <<>>

\* run() has not been called
NoRun ==
    /\ run_pc = "none"
    /\ init_result = "ok"
    /\ stop_event = FALSE
    /\ polls = 0
    /\ pending_tasks = {}
    /\ run_tasks = <<>>
    /\ nextRunTask = 1
    /\ gathered = {}
    /\ closed = <<>>

\* BotManager.__init__
MgrInit ==
    /\ is_running = FALSE
    /\ is_paused = FALSE
    /\ bot = 0
    /\ bot_task = 0
    /\ mgr_lock = <<>>
    /\ mgr_calls = <<>>
    /\ bot_tasks = <<>>
    /\ bot_is_paused = <<>>
    /\ paused_at = 0

\* BotState() before any command; allowed is control_allowed_users
ControlInit(allowed) ==
    /\ bot_state = [is_paused |-> FALSE, pause_reason |-> "", pause_time |-> NoTs]
    /\ control_allowed_users = allowed
    /\ last_event = None
    /\ gate = [r \in Reqs |-> "none"]
    /\ command_replies = <<>>

MaxCmds == 3         \* commands given to send_command in one behaviour
MaxWebCallers == 2   \* request threads of the web application inside send_command

WebCallers == 1..MaxWebCallers

\* IPCManager.__init__: no command was sent yet, nobody is inside a call
IpcInit ==
    /\ cmd_file = <<>>
    /\ send_pc = [w \in WebCallers |-> "idle"]
    /\ send_commands = [w \in WebCallers |-> <<>>]
    /\ get_pc = "idle"
    /\ get_commands = <<>>
    /\ nextCmd = 1
    /\ cmd_sent = {}
    /\ cmd_got = <<>>

\* the controllers around the pipeline are at rest
CtlInit == NoRun /\ MgrInit /\ ControlInit({}) /\ IpcInit

\* wx_lock = asyncio.Lock(): free, nobody queued, nothing being sent
GuiInit ==
    /\ wx_lock = 0
    /\ wx_waiters = <<>>
    /\ sending = [r \in Reqs |-> "no"]
    /\ sends = [r \in Reqs |-> 0]

Init ==
    /\ now = 0
    /\ PipeInit(CfgRetries, CfgTtl, DefaultMaxConcurrency)
    /\ MergeInit(0) /\ NoCall /\ GuiInit /\ CtlInit

\* handle_event up to "async with self.sem": the task of a new inbound event
HandleEvent(c) ==
    /\ nextReq <= MaxReq
    /\ LET r == nextReq IN
        /\ nextReq' = nextReq + 1
        /\ chatOf' = [chatOf EXCEPT ![r] = c]
        /\ semOf' = [semOf EXCEPT ![r] = sem]
        /\ IF SemLocked(sem)
           THEN /\ pc' = [pc EXCEPT ![r] = "semwait"]
                /\ UNCHANGED semValue
           ELSE /\ pc' = [pc EXCEPT ![r] = "admitted"]
                /\ semValue' = [semValue EXCEPT ![sem] = @ - 1]
    /\ UNCHANGED <<mergeVars, cfgVars, fnVars, guiVars, ctlVars, streamVars>>
    /\ UNCHANGED <<now, max_retries, history_ttl_sec, max_concurrency, histories, history_timestamps, chat_locks,
                   lockOwner, lockWaiters, nextLock, sem, reloads, lockOf,
                   attempt, posts, fails, snapshot, result, lateCall>>

\* a waiter of the semaphore is woken by a release
SemWake(r) ==
    /\ pc[r] = "semwait"
    /\ semValue[semOf[r]] > 0
    /\ semValue' = [semValue EXCEPT ![semOf[r]] = @ - 1]
    /\ pc' = [pc EXCEPT ![r] = "admitted"]
    /\ UNCHANGED <<mergeVars, cfgVars, fnVars, guiVars, ctlVars, streamVars>>
    /\ UNCHANGED <<now, max_retries, history_ttl_sec, max_concurrency, histories, history_timestamps, chat_locks,
                   lockOwner, lockWaiters, nextLock, sem, reloads, nextReq,
                   chatOf, semOf, lockOf, attempt, posts, fails, snapshot,
                   result, lateCall>>

\* lock acquired: _build_messages runs and the first transport call is issued
EnterLock(r, c, l, locks) ==
    LET reg == Registry(histories, history_timestamps, locks)
        built == BuildRegistry(reg, c, now)
    IN  /\ lockOwner' = [lockOwner EXCEPT ![l] = r]
        /\ snapshot' = [snapshot EXCEPT ![r] = BuildSnapshot(reg, c, now)]
        /\ histories' = built.h
        /\ history_timestamps' = built.ts
        /\ chat_locks' = built.lk
        /\ pc' = [pc EXCEPT ![r] = "transport"]
        /\ posts' = [posts EXCEPT ![r] = @ + 1]

\* generate_reply of caller r for chat c: _get_chat_lock, then "async with lock"
EnterGenerateReply(r, c) ==
    /\ LET fresh == chat_locks[c] = NoLock
           l == IF fresh THEN nextLock ELSE chat_locks[c]
           locks == [chat_locks EXCEPT ![c] = l]
       IN  /\ nextLock' = IF fresh THEN nextLock + 1 ELSE nextLock
           /\ lockOf' = [lockOf EXCEPT ![r] = l]
           /\ lateCall' = [lateCall EXCEPT ![r] =
                 \E q \in Reqs \ {r} : chatOf[q] = c /\ pc[q] \in {"replying", "done"}]
           /\ IF LockFree(l)
              THEN /\ EnterLock(r, c, l, locks)
                   /\ UNCHANGED lockWaiters
              ELSE /\ lockWaiters' = [lockWaiters EXCEPT ![l] = Append(@, r)]
                   /\ chat_locks' = locks
                   /\ pc' = [pc EXCEPT ![r] = "lockwait"]
                   /\ UNCHANGED <<lockOwner, snapshot, histories,
                                  history_timestamps, posts>>
    /\ UNCHANGED <<mergeVars, cfgVars, fnVars, guiVars, ctlVars>>
    /\ UNCHANGED <<now, max_retries, history_ttl_sec, max_concurrency, sem,
                   semValue, reloads, attempt, fails, result>>

\* _process_and_reply of an admitted handle_event reaches generate_reply
GenerateReply(r) ==
    /\ pc[r] = "admitted"
    /\ EnterGenerateReply(r, chatOf[r])
    /\ UNCHANGED <<nextReq, chatOf, semOf, streamVars>>

\* a task outside handle_event calls generate_reply(c, ...) directly
CallGenerateReply(c) ==
    /\ nextReq <= MaxReq
    /\ nextReq' = nextReq + 1
    /\ chatOf' = [chatOf EXCEPT ![nextReq] = c]
    /\ EnterGenerateReply(nextReq, c)
    /\ UNCHANGED <<semOf, streamVars>>

\* the first waiter of a released lock resumes inside "async with lock"
LockWake(r) ==
    /\ pc[r] = "lockwait"
    /\ lockOwner[lockOf[r]] = 0
    /\ Head(lockWaiters[lockOf[r]]) = r
    /\ lockWaiters' = [lockWaiters EXCEPT ![lockOf[r]] = Tail(@)]
    /\ EnterLock(r, chatOf[r], lockOf[r], chat_locks)
    /\ UNCHANGED <<mergeVars, cfgVars, fnVars, guiVars, ctlVars, streamVars>>
    /\ UNCHANGED <<now, max_retries, history_ttl_sec, max_concurrency, nextLock, sem, semValue, reloads, nextReq,
                   chatOf, semOf, lockOf, attempt, fails, result, lateCall>>

\* one transport attempt returns: the try/except of the retry loop
TransportReturn(r, resp) ==
    /\ pc[r] = "transport"
    /\ ~streaming[r]
    /\ LET reply == ParseReply(resp)
           c == chatOf[r]
       IN  IF reply # Fail
           THEN \* _append_history; return reply (lock released, reply being sent)
                LET reg == AppendHistory(CurReg, c, UserText(r), reply, now)
                IN  /\ histories' = reg.h
                    /\ history_timestamps' = reg.ts
                    /\ chat_locks' = reg.lk
                    /\ lockOwner' = [lockOwner EXCEPT ![lockOf[r]] = 0]
                    /\ result' = [result EXCEPT ![r] = reply]
                    /\ pc' = [pc EXCEPT ![r] = IF UnderSem(r) THEN "replying" ELSE "done"]
                    /\ snapshot' = [snapshot EXCEPT ![r] = <<>>]
                    /\ appended' = [appended EXCEPT ![r] = reply]
                    /\ UNCHANGED <<fails, semValue, waits, raised>>
           ELSE /\ fails' = [fails EXCEPT ![r] = @ + 1]
                /\ UNCHANGED <<histories, history_timestamps, chat_locks, result,
                               appended>>
                /\ raised' = [raised EXCEPT ![r] = ~Caught(ErrorClass(resp))]
                /\ IF Caught(ErrorClass(resp)) /\ RetryAgain(attempt[r])
                   THEN \* await asyncio.sleep(wait)
                        /\ pc' = [pc EXCEPT ![r] = "backoff"]
                        /\ waits' = [waits EXCEPT ![r] = Append(@, Wait(attempt[r]))]
                        /\ UNCHANGED <<lockOwner, semValue, snapshot>>
                   ELSE \* return None (or the exception leaves "async with
                        \* lock"); handle_event returns and leaves the semaphore
                        /\ pc' = [pc EXCEPT ![r] = "done"]
                        /\ UNCHANGED waits
                        /\ snapshot' = [snapshot EXCEPT ![r] = <<>>]
                        /\ lockOwner' = [lockOwner EXCEPT ![lockOf[r]] = 0]
                        /\ semValue' = IF UnderSem(r)
                                       THEN [semValue EXCEPT ![semOf[r]] = @ + 1]
                                       ELSE semValue
    /\ UNCHANGED <<mergeVars, cfgVars, fnVars, guiVars, ctlVars, streaming, fell_back, stream_appended, reply_parts, sent_any, yielded>>
    /\ UNCHANGED <<now, max_retries, history_ttl_sec, max_concurrency, lockWaiters, nextLock, sem, reloads, nextReq,
                   chatOf, semOf, lockOf, attempt, posts, lateCall>>

\* the backoff sleep ends: next iteration of the retry loop
BackoffDone(r) ==
    /\ pc[r] = "backoff"
    /\ attempt' = [attempt EXCEPT ![r] = @ + 1]
    /\ posts' = [posts EXCEPT ![r] = @ + 1]
    /\ pc' = [pc EXCEPT ![r] = "transport"]
    /\ reply_parts' = [reply_parts EXCEPT ![r] = <<>>]
    /\ UNCHANGED <<mergeVars, cfgVars, fnVars, guiVars, ctlVars, waits, streaming, fell_back, stream_appended, sent_any, yielded, appended, raised>>
    /\ UNCHANGED <<now, max_retries, history_ttl_sec, max_concurrency, histories, history_timestamps, chat_locks,
                   lockOwner, lockWaiters, nextLock, sem, semValue, reloads,
                   nextReq, chatOf, semOf, lockOf, fails, snapshot, result,
                   lateCall>>

\* the reply has been sent: handle_event leaves "async with self.sem"
Finish(r) ==
    /\ pc[r] = "replying"
    /\ pc' = [pc EXCEPT ![r] = "done"]
    /\ semValue' = [semValue EXCEPT ![semOf[r]] = @ + 1]
    /\ UNCHANGED <<mergeVars, cfgVars, fnVars, guiVars, ctlVars, streamVars>>
    /\ UNCHANGED <<now, max_retries, history_ttl_sec, max_concurrency, histories, history_timestamps, chat_locks,
                   lockOwner, lockWaiters, nextLock, sem, reloads, nextReq,
                   chatOf, semOf, lockOf, attempt, posts, fails, snapshot,
                   result, lateCall>>

\* AIClient.prune_histories(), called periodically by the main loop
PruneHistories ==
    /\ CurReg # Prune(CurReg, now)
    /\ LET reg == Prune(CurReg, now)
       IN  /\ histories' = reg.h
           /\ history_timestamps' = reg.ts
           /\ chat_locks' = reg.lk
    /\ UNCHANGED <<mergeVars, cfgVars, fnVars, guiVars, ctlVars, streamVars>>
    /\ UNCHANGED <<now, max_retries, history_ttl_sec, max_concurrency, lockOwner, lockWaiters, nextLock, sem,
                   semValue, reloads, nextReq, pc, chatOf, semOf, lockOf,
                   attempt, posts, fails, snapshot, result, lateCall>>

\* _check_config_reload -> _apply_config: a new Semaphore replaces self.sem
ReloadConfig ==
    /\ reloads < MaxReloads
    /\ reloads' = reloads + 1
    /\ sem' = sem + 1
    /\ semValue' = [semValue EXCEPT ![sem + 1] = max_concurrency]
    /\ UNCHANGED <<mergeVars, cfgVars, fnVars, guiVars, ctlVars, streamVars>>
    /\ UNCHANGED <<now, max_retries, history_ttl_sec, max_concurrency, histories, history_timestamps, chat_locks,
                   lockOwner, lockWaiters, nextLock, nextReq, pc, chatOf, semOf,
                   lockOf, attempt, posts, fails, snapshot, result, lateCall>>

\* a released lock whose first waiter has been woken and has not run yet
HandOff(l) == lockOwner[l] = 0 /\ lockWaiters[l] # <<>>

\* time passes (while no woken task is waiting to run)
Tick ==
    /\ now < MaxTime
    /\ \A l \in LockIds : ~HandOff(l)
    /\ now' = now + 1
    /\ UNCHANGED <<pipeVars, mergeVars, cfgVars, fnVars, guiVars, ctlVars, streamVars>>

Next ==
    \/ \E c \in NextChats({ chatOf[r] : r \in 1..(nextReq - 1) }) : CallGenerateReply(c)
    \/ \E r \in Reqs : LockWake(r)
    \/ \E r \in Reqs : \E resp \in Responses(r) : TransportReturn(r, resp)
    \/ \E r \in Reqs : BackoffDone(r)
    \/ PruneHistories
    \/ Tick

Spec == Init /\ [][Next]_vars

(***************************************************************************)
(* SpecLimiter: the same pipeline with a small max_concurrency, no retry   *)
(* and no TTL, and with configuration reloads.                             *)
(***************************************************************************)
InitLimiter == now = 0 /\ PipeInit(0, 0, LimiterCap) /\ MergeInit(0) /\ NoCall /\ GuiInit /\ CtlInit

NextLimiter ==
    \/ \E c \in NextChats({ chatOf[r] : r \in 1..(nextReq - 1) }) : HandleEvent(c)
    \/ \E r \in Reqs : SemWake(r)
    \/ \E r \in Reqs : GenerateReply(r)
    \/ \E r \in Reqs : LockWake(r)
    \/ \E r \in Reqs : \E resp \in Responses(r) : TransportReturn(r, resp)
    \/ \E r \in Reqs : Finish(r)
    \/ ReloadConfig

SpecLimiter == InitLimiter /\ [][NextLimiter]_vars

(***************************************************************************)
(* SpecRetry: generate_reply under every configured max_retries, TTL off.  *)
(***************************************************************************)
\* configured values of max_retries, in and out of the range _coerce_retries keeps
RetryConfigs == (0 - 1)..(MAX_RETRIES + 1)

InitRetry ==
    /\ now = 0
    /\ \E v \in RetryConfigs : PipeInit(v, 0, DefaultMaxConcurrency)
    /\ MergeInit(0) /\ NoCall /\ GuiInit /\ CtlInit

NextRetry ==
    \/ \E c \in NextChats({ chatOf[r] : r \in 1..(nextReq - 1) }) : CallGenerateReply(c)
    \/ \E r \in Reqs : LockWake(r)
    \/ \E r \in Reqs : \E resp \in Responses(r) : TransportReturn(r, resp)
    \/ \E r \in Reqs : BackoffDone(r)

SpecRetry == InitRetry /\ [][NextRetry]_vars

(***************************************************************************)
(* SpecRegistry: the history registry of a client that already stores     *)
(* histories, with TTL, LRU bound and runtime changes of the settings.    *)
(***************************************************************************)
\* as_int(value, default, min_value)
AsInt(value, min_value) == IF value < min_value THEN min_value ELSE value

\* apply_ai_runtime_settings: a reloaded configuration sets context_rounds
\* and history_max_chats of the running client
ApplyAiRuntimeSettings(rounds, maxchats) ==
    /\ reloads < MaxReloads
    /\ reloads' = reloads + 1
    /\ context_rounds' = AsInt(rounds, 0)
    /\ history_max_chats' = AsInt(maxchats, 1)
    /\ UNCHANGED <<now, mergeVars, streamVars, fnVars, guiVars, ctlVars>>
    /\ UNCHANGED <<max_retries, history_ttl_sec, max_concurrency, histories,
                   history_timestamps, chat_locks, lockOwner, lockWaiters, nextLock,
                   sem, semValue, nextReq, pc, chatOf, semOf, lockOf, attempt, posts,
                   fails, snapshot, result, lateCall>>

\* chats that have a stored history when the behaviour starts
StoredChats == CfgMaxChats + 1

InitRegistry ==
    /\ now = 0
    /\ ClientInit(0, CfgTtl, DefaultMaxConcurrency, CfgMaxChats + 1, CfgRounds, StoredChats)
    /\ MergeInit(0) /\ NoCall /\ GuiInit /\ CtlInit

\* the endpoint of SpecRegistry answers with a reply or with a transport error
RegistryResponses(r) ==
    { resp \in Responses(r) :
        resp.exc \/ (resp.status = 200 /\ resp.json /\ ~resp.error /\ resp.content = ReplyText(r)) }

\* the reloaded configurations: one round less, or both settings at zero
Settings ==
    { [rounds |-> CfgRounds - 1, maxchats |-> CfgMaxChats + 1],
      [rounds |-> 0, maxchats |-> 0] }

NextRegistry ==
    \/ \E c \in NextChats(1..StoredChats \cup { chatOf[r] : r \in 1..(nextReq - 1) }) :
          nextReq <= MaxCalls /\ CallGenerateReply(c)
    \/ \E r \in Reqs : LockWake(r)
    \/ \E r \in Reqs : \E resp \in RegistryResponses(r) : TransportReturn(r, resp)
    \/ PruneHistories
    \/ \E cfg \in Settings : ApplyAiRuntimeSettings(cfg.rounds, cfg.maxchats)
    \/ Tick

SpecRegistry == InitRegistry /\ [][NextRegistry]_vars

(***************************************************************************)
(* Streaming: generate_reply_stream and the async generator _stream.       *)
(***************************************************************************)
\* a JSON member that is absent (dict.get -> None)
Null == <<0 - 2>>

\* "".join(reply_parts)
RECURSIVE Concat(_)
Concat(parts) == IF parts = <<>> THEN <<>> ELSE Head(parts) \o Concat(Tail(parts))

\* the lines resp.aiter_lines() may give to execution r
StreamLines(r) ==
    { [tag |-> "blank",   delta |-> Null, message |-> Null],
      [tag |-> "comment", delta |-> Null, message |-> Null],
      [tag |-> "badjson", delta |-> Null, message |-> Null],
      [tag |-> "done",    delta |-> Null, message |-> Null],
      [tag |-> "eof",     delta |-> Null, message |-> Null],
      [tag |-> "json",    delta |-> Null, message |-> Null],
      [tag |-> "json",    delta |-> <<>>, message |-> ReplyText(r)],
      [tag |-> "json",    delta |-> <<SP>>, message |-> Null],
      [tag |-> "json",    delta |-> ReplyText(r), message |-> Null],
      [tag |-> "json",    delta |-> Null, message |-> ReplyText(r)] }

\* body of "async for raw_line in resp.aiter_lines()": skip the line, leave
\* the loop, or yield a chunk
ParseLine(line) ==
    IF line.tag \in {"blank", "comment", "badjson"} THEN [op |-> "skip", chunk |-> <<>>]
    ELSE IF line.tag \in {"done", "eof"} THEN [op |-> "end", chunk |-> <<>>]
    ELSE LET chunk == IF line.delta = Null THEN line.message ELSE line.delta
         IN  IF chunk = Null \/ chunk = <<>>
             THEN [op |-> "skip", chunk |-> <<>>]
             ELSE [op |-> "yield", chunk |-> chunk]

\* mutation: a broken stream is retried although fragments were yielded
GiveUp_mut(any) == FALSE

\* "if sent_any:" of the except block: commit the partial reply and stop
GiveUp(any) == any

\* mutation: the partial reply is committed as it was yielded
Partial_mut(parts) == Concat(parts)

\* "".join(reply_parts).strip()
Partial(parts) == Strip(Concat(parts))

\* generate_reply_stream(c, ...) followed by the consumer's first __anext__
CallGenerateReplyStream(c) ==
    /\ nextReq <= MaxReq
    /\ Cardinality({ r \in Reqs : streaming[r] }) < MaxStreams
    /\ nextReq' = nextReq + 1
    /\ chatOf' = [chatOf EXCEPT ![nextReq] = c]
    /\ streaming' = [streaming EXCEPT ![nextReq] = TRUE]
    /\ EnterGenerateReply(nextReq, c)
    /\ UNCHANGED <<semOf, waits, reply_parts, sent_any, yielded, appended, raised,
                   fell_back, stream_appended>>

\* _process_and_reply of an admitted handle_event opens the stream
GenerateReplyStream(r) ==
    /\ pc[r] = "admitted"
    /\ streaming' = [streaming EXCEPT ![r] = TRUE]
    /\ EnterGenerateReply(r, chatOf[r])
    /\ UNCHANGED <<nextReq, chatOf, semOf, waits, reply_parts, sent_any, yielded,
                   appended, raised, fell_back, stream_appended>>

\* self._append_history(chat_id, user_text, reply) inside _stream
StreamCommit(r, reply) ==
    LET reg == AppendHistory(CurReg, chatOf[r], UserText(r), reply, now)
    IN  /\ histories' = reg.h
        /\ history_timestamps' = reg.ts
        /\ chat_locks' = reg.lk
        /\ appended' = [appended EXCEPT ![r] = reply]

\* "return" of _stream: the lock is released, the consumer's loop ends
StreamReturn(r) ==
    /\ lockOwner' = [lockOwner EXCEPT ![lockOf[r]] = 0]
    /\ snapshot' = [snapshot EXCEPT ![r] = <<>>]
    /\ pc' = [pc EXCEPT ![r] = IF UnderSem(r) THEN "replying" ELSE "done"]

\* the except block of _stream
StreamExcept(r) ==
    /\ fails' = [fails EXCEPT ![r] = @ + 1]
    /\ IF GiveUp(sent_any[r])
       THEN /\ IF Partial(reply_parts[r]) # <<>>
               THEN StreamCommit(r, Partial(reply_parts[r]))
               ELSE UNCHANGED <<histories, history_timestamps, chat_locks, appended>>
            /\ StreamReturn(r)
            /\ UNCHANGED waits
       ELSE /\ UNCHANGED <<histories, history_timestamps, chat_locks, appended>>
            /\ IF RetryAgain(attempt[r])
               THEN /\ pc' = [pc EXCEPT ![r] = "backoff"]
                    /\ waits' = [waits EXCEPT ![r] = Append(@, Wait(attempt[r]))]
                    /\ UNCHANGED <<lockOwner, snapshot>>
               ELSE /\ StreamReturn(r)
                    /\ UNCHANGED waits

\* one line of the streamed response arrives
StreamLine(r, line) ==
    /\ pc[r] = "transport"
    /\ streaming[r]
    /\ LET p == ParseLine(line) IN
        IF p.op = "skip"
        THEN UNCHANGED <<histories, history_timestamps, chat_locks, appended, fails,
                         waits, lockOwner, snapshot, pc, reply_parts, sent_any, yielded>>
        ELSE IF p.op = "yield"
        THEN /\ Len(yielded[r]) < MaxChunks
             /\ reply_parts' = [reply_parts EXCEPT ![r] = Append(@, p.chunk)]
             /\ sent_any' = [sent_any EXCEPT ![r] = TRUE]
             /\ yielded' = [yielded EXCEPT ![r] =
                              Append(@, [attempt |-> attempt[r], chunk |-> p.chunk])]
             /\ pc' = [pc EXCEPT ![r] = "yielded"]
             /\ UNCHANGED <<histories, history_timestamps, chat_locks, appended, fails,
                            waits, lockOwner, snapshot>>
        ELSE \* the loop ends: reply = "".join(reply_parts).strip()
             /\ IF Partial(reply_parts[r]) # <<>>
                THEN /\ StreamCommit(r, Partial(reply_parts[r]))
                     /\ StreamReturn(r)
                     /\ UNCHANGED <<fails, waits>>
                ELSE \* raise RuntimeError: caught by the except block
                     StreamExcept(r)
             /\ UNCHANGED <<reply_parts, sent_any, yielded>>
    /\ UNCHANGED <<now, mergeVars, cfgVars, fnVars, guiVars, ctlVars, max_retries, history_ttl_sec, max_concurrency,
                   lockWaiters, nextLock, sem, semValue, reloads, nextReq, chatOf,
                   semOf, lockOf, attempt, posts, result, lateCall, streaming, raised,
                   fell_back, stream_appended>>

\* the streamed attempt raises: HTTP status >= 400 before the first line, or a
\* transport error at any line
StreamError(r, cls) ==
    /\ pc[r] = "transport"
    /\ streaming[r]
    /\ cls = "RuntimeError" => reply_parts[r] = <<>>
    /\ IF Caught(cls)
       THEN /\ StreamExcept(r)
            /\ UNCHANGED raised
       ELSE /\ fails' = [fails EXCEPT ![r] = @ + 1]
            /\ raised' = [raised EXCEPT ![r] = TRUE]
            /\ StreamReturn(r)
            /\ UNCHANGED <<histories, history_timestamps, chat_locks, appended, waits>>
    /\ UNCHANGED <<reply_parts, sent_any, yielded>>
    /\ UNCHANGED <<now, mergeVars, cfgVars, fnVars, guiVars, ctlVars, max_retries, history_ttl_sec, max_concurrency,
                   lockWaiters, nextLock, sem, semValue, reloads, nextReq, chatOf,
                   semOf, lockOf, attempt, posts, result, lateCall, streaming,
                   fell_back, stream_appended>>

\* the consumer has used the fragment and asks for the next one
ConsumerNext(r) ==
    /\ pc[r] = "yielded"
    /\ pc' = [pc EXCEPT ![r] = "transport"]
    /\ UNCHANGED <<now, mergeVars, cfgVars, fnVars, guiVars, ctlVars, streamVars>>
    /\ UNCHANGED <<max_retries, history_ttl_sec, max_concurrency, histories,
                   history_timestamps, chat_locks, lockOwner, lockWaiters, nextLock,
                   sem, semValue, reloads, nextReq, chatOf, semOf, lockOf, attempt,
                   posts, fails, snapshot, result, lateCall>>

\* the consumer leaves its "async for" (sending a piece failed): handle_event
\* returns, the generator stays suspended at "yield chunk" until it is finalized
ConsumerStop(r) ==
    /\ pc[r] = "yielded"
    /\ pc' = [pc EXCEPT ![r] = "closing"]
    /\ semValue' = IF UnderSem(r) THEN [semValue EXCEPT ![semOf[r]] = @ + 1] ELSE semValue
    /\ UNCHANGED <<now, mergeVars, cfgVars, fnVars, guiVars, ctlVars, streamVars>>
    /\ UNCHANGED <<max_retries, history_ttl_sec, max_concurrency, histories,
                   history_timestamps, chat_locks, lockOwner, lockWaiters, nextLock,
                   sem, reloads, nextReq, chatOf, semOf, lockOf, attempt,
                   posts, fails, snapshot, result, lateCall>>

\* the event loop's finalizer runs aclose() on the abandoned generator:
\* GeneratorExit is raised at "yield chunk", passes "except Exception" and
\* leaves "async with lock"
AClose(r) ==
    /\ pc[r] = "closing"
    /\ ~Caught("GeneratorExit")
    /\ pc' = [pc EXCEPT ![r] = "done"]
    /\ lockOwner' = [lockOwner EXCEPT ![lockOf[r]] = 0]
    /\ snapshot' = [snapshot EXCEPT ![r] = <<>>]
    /\ UNCHANGED <<now, mergeVars, cfgVars, fnVars, guiVars, ctlVars, streamVars>>
    /\ UNCHANGED <<max_retries, history_ttl_sec, max_concurrency, histories,
                   history_timestamps, chat_locks, lockWaiters, nextLock,
                   sem, semValue, reloads, nextReq, chatOf, semOf, lockOf, attempt,
                   posts, fails, result, lateCall>>

\* positions at which the task of execution r is suspended
Suspended(r) ==
    pc[r] \in {"semwait", "admitted", "lockwait", "transport", "backoff", "yielded",
               "replying"}

\* mutation: a task cancelled in the backoff sleep keeps the lock
Unwinds_mut(r) == pc[r] = "transport"

\* positions at which the task of r is suspended inside the frame of
\* "async with lock": an exception raised there leaves the block
Unwinds(r) == pc[r] \in {"transport", "backoff"}

RECURSIVE Remove(_, _)
Remove(q, r) ==
    IF q = <<>> THEN <<>>
    ELSE IF Head(q) = r THEN Remove(Tail(q), r)
    ELSE <<Head(q)>> \o Remove(Tail(q), r)

\* Task.cancel() on the task of execution r: CancelledError is raised at the
\* await the task is suspended in and passes every "except Exception"; the
\* "async with" blocks it leaves release the lock and the semaphore
CancelExecution(r) ==
    /\ Suspended(r)
    /\ ~Caught("CancelledError")
    /\ pc' = [pc EXCEPT ![r] = IF pc[r] = "yielded" THEN "closing" ELSE "cancelled"]
    /\ raised' = [raised EXCEPT ![r] = TRUE]
    /\ lockWaiters' = IF pc[r] = "lockwait"
                      THEN [lockWaiters EXCEPT ![lockOf[r]] = Remove(@, r)]
                      ELSE lockWaiters
    /\ lockOwner' = IF Unwinds(r)
                    THEN [lockOwner EXCEPT ![lockOf[r]] = 0]
                    ELSE lockOwner
    /\ snapshot' = IF pc[r] \in {"transport", "backoff"}
                   THEN [snapshot EXCEPT ![r] = <<>>]
                   ELSE snapshot
    /\ semValue' = IF UnderSem(r) /\ Admitted(r)
                   THEN [semValue EXCEPT ![semOf[r]] = @ + 1]
                   ELSE semValue
    /\ UNCHANGED <<now, mergeVars, cfgVars, fnVars, guiVars, ctlVars, waits, streaming, fell_back, stream_appended, reply_parts, sent_any, yielded,
                   appended>>
    /\ UNCHANGED <<max_retries, history_ttl_sec, max_concurrency, histories,
                   history_timestamps, chat_locks, nextLock, sem, reloads, nextReq,
                   chatOf, semOf, lockOf, attempt, posts, fails, result, lateCall>>

\* SpecCancel: handle_event tasks, synchronous or streamed, under a small
\* max_concurrency, any of which may be cancelled where it is suspended
InitCancel ==
    /\ now = 0
    /\ \E cap \in {LimiterCap, LimiterCap + 1} : PipeInit(CfgRetries, 0, cap)
    /\ MergeInit(0) /\ NoCall /\ GuiInit /\ CtlInit

\* the endpoint of SpecCancel answers with a reply or with a transport error
CancelResponses(r) == { resp \in Responses(r) : resp.exc \/ resp.content = ReplyText(r) }
CancelLines(r) == { line \in StreamLines(r) : line.tag = "done" \/ line.delta = ReplyText(r) }

NextCancel ==
    \/ \E c \in NextChats({ chatOf[r] : r \in 1..(nextReq - 1) }) :
          nextReq <= MaxTasks /\ HandleEvent(c)
    \/ \E r \in Reqs : SemWake(r)
    \/ \E r \in Reqs : GenerateReply(r)
    \/ \E r \in Reqs : GenerateReplyStream(r)
    \/ \E r \in Reqs : LockWake(r)
    \/ \E r \in Reqs : \E resp \in CancelResponses(r) : TransportReturn(r, resp)
    \/ \E r \in Reqs : \E line \in CancelLines(r) : StreamLine(r, line)
    \/ \E r \in Reqs : StreamError(r, "httpx.HTTPError")
    \/ \E r \in Reqs : BackoffDone(r)
    \/ \E r \in Reqs : ConsumerNext(r)
    \/ \E r \in Reqs : ConsumerStop(r)
    \/ \E r \in Reqs : AClose(r)
    \/ \E r \in Reqs : Finish(r)
    \/ \E r \in Reqs : CancelExecution(r)

SpecCancel == InitCancel /\ [][NextCancel]_vars

\* SpecFail: synchronous and streamed calls whose attempts may fail, with a
\* consumer that takes every fragment
InitFail == now = 0 /\ PipeInit(CfgRetries, 0, DefaultMaxConcurrency) /\ MergeInit(0) /\ NoCall /\ GuiInit /\ CtlInit

NextFail ==
    \/ \E c \in NextChats({ chatOf[r] : r \in 1..(nextReq - 1) }) :
          nextReq <= MaxCalls /\ CallGenerateReply(c)
    \/ \E c \in NextChats({ chatOf[r] : r \in 1..(nextReq - 1) }) :
          nextReq <= MaxCalls /\ CallGenerateReplyStream(c)
    \/ \E r \in Reqs : LockWake(r)
    \/ \E r \in Reqs : \E resp \in Responses(r) : TransportReturn(r, resp)
    \/ \E r \in Reqs : \E line \in StreamLines(r) : StreamLine(r, line)
    \/ \E r \in Reqs : \E cls \in {"RuntimeError", "httpx.HTTPError"} : StreamError(r, cls)
    \/ \E r \in Reqs : BackoffDone(r)
    \/ \E r \in Reqs : ConsumerNext(r)

SpecFail == InitFail /\ [][NextFail]_vars

(***************************************************************************)
(* SpecMerge: the debounce coalescer (schedule_merged_reply and            *)
(* wait_and_reply) with a discrete clock.  A timer fires when its delay    *)
(* has elapsed; the clock does not pass a timer that is due.               *)
(***************************************************************************)
\* event.content of inbound event m
Content(m) == <<200 + m>>

\* mutation: each text is put in front of the ones before it
RECURSIVE Join_mut(_)
Join_mut(texts) ==
    IF texts = <<>> THEN <<>>
    ELSE IF Len(texts) = 1 THEN texts[1]
    ELSE Join_mut(Tail(texts)) \o <<NL>> \o texts[1]

\* "\n".join(messages)
RECURSIVE Join(_)
Join(texts) ==
    IF texts = <<>> THEN <<>>
    ELSE IF Len(texts) = 1 THEN texts[1]
    ELSE texts[1] \o <<NL>> \o Join(Tail(texts))

\* mutation: the timer is restarted without the max-wait cap
Delay_mut(t, first) == merge_sec

\* delay of the timer started at time t for a burst first seen at time first
Delay(t, first) ==
    IF max_wait > 0
    THEN Min(merge_sec, Max(0, max_wait - (t - first)))
    ELSE merge_sec

\* mutation: a cancel issued after the sleep elapsed has no effect
Cancel_mut(task) ==
    IF task.st = "pending" /\ ~task.fired THEN [task EXCEPT !.st = "cancelled"] ELSE task

\* "if not task.done(): task.cancel()": CancelledError is raised at the task's
\* "await asyncio.sleep(delay)", also when the sleep has already elapsed, and
\* wait_and_reply returns on it
Cancel(task) == IF task.st = "pending" THEN [task EXCEPT !.st = "cancelled"] ELSE task

\* "not task.done()"
Live(t) == tasks[t].st = "pending"

\* mutation: the entry stays in the map
Pop_mut(map, c, default) == map

\* dict.pop(chat_id, default) on a per-chat map
Pop(map, c, default) == [map EXCEPT ![c] = default]

\* a call of handle_event made by the coalescer
Call(c, text, event, raw, by, first) ==
    [chat |-> c, text |-> text, event |-> event, raw |-> raw, by |-> by,
     first |-> first, at |-> now]

\* mutation: a voice message is coalesced like a text
IsVoiceMessage_mut(kind) == FALSE

\* is_voice_message(event.msg_type)
IsVoiceMessage(kind) == kind = "voice"

\* schedule_merged_reply(event) for inbound event nextMsg of chat c
ScheduleMergedReply(c, kind) ==
    /\ ~stopped
    /\ nextMsg <= MaxMsgs
    /\ LET m == nextMsg IN
        IF kind = "skip"
        THEN \* should_reply is false: return, nothing is recorded
             UNCHANGED <<pending_merge_messages, pending_merge_events,
                         pending_merge_first_event, pending_merge_first_ts,
                         pending_merge_tasks, tasks, nextTask, handled,
                         nextMsg, arrival>>
        ELSE
        /\ nextMsg' = m + 1
        /\ arrival' = [arrival EXCEPT ![m] = [chat |-> c, at |-> now, kind |-> kind]]
        /\ IF IsVoiceMessage(kind)
           THEN \* is_voice_message: handle_event at once, nothing else
                /\ handled' = Append(handled, Call(c, Content(m), m, m, NoTask, now))
                /\ UNCHANGED <<pending_merge_messages, pending_merge_events,
                               pending_merge_first_event, pending_merge_first_ts,
                               pending_merge_tasks, tasks, nextTask>>
           ELSE LET isFirst == pending_merge_first_ts[c] = NoTs
                    first == IF isFirst THEN now ELSE pending_merge_first_ts[c]
                    old == pending_merge_tasks[c]
                    t == nextTask
                IN  /\ pending_merge_first_ts' = [pending_merge_first_ts EXCEPT ![c] = first]
                    /\ pending_merge_first_event' =
                          IF isFirst
                          THEN [pending_merge_first_event EXCEPT ![c] = m]
                          ELSE pending_merge_first_event
                    /\ pending_merge_messages' =
                          [pending_merge_messages EXCEPT ![c] = Append(@, Content(m))]
                    /\ pending_merge_events' = [pending_merge_events EXCEPT ![c] = m]
                    /\ tasks' = [u \in TaskIds |->
                          IF u = t
                          THEN [chat |-> c, due |-> now + Delay(now, first),
                                st |-> "pending", fired |-> FALSE]
                          ELSE IF u = old
                          THEN Cancel(tasks[u])
                          ELSE tasks[u]]
                    /\ pending_merge_tasks' = [pending_merge_tasks EXCEPT ![c] = t]
                    /\ nextTask' = t + 1
                    /\ UNCHANGED handled
    /\ UNCHANGED <<now, pipeVars, cfgVars, fnVars, guiVars, ctlVars, streamVars, max_wait, stopped>>

\* the sleep of a wait_and_reply task elapses: the task becomes runnable
TimerElapse(t) ==
    /\ Live(t)
    /\ ~tasks[t].fired
    /\ tasks[t].due <= now
    /\ tasks' = [tasks EXCEPT ![t].fired = TRUE]
    /\ UNCHANGED <<now, pipeVars, cfgVars, fnVars, guiVars, ctlVars, streamVars, max_wait, pending_merge_messages,
                   pending_merge_events, pending_merge_first_event,
                   pending_merge_first_ts, pending_merge_tasks, nextTask,
                   nextMsg, arrival, handled, stopped>>

\* wait_and_reply after its sleep: pop the chat's entries, hand the merged turn over
WaitAndReply(t) ==
    /\ Live(t)
    /\ tasks[t].fired
    /\ LET c == tasks[t].chat
           messages == pending_merge_messages[c]
           event == pending_merge_events[c]
           first_event == pending_merge_first_event[c]
           combined_text == Strip(Join(messages))
       IN  /\ pending_merge_messages' = Pop(pending_merge_messages, c, <<>>)
           /\ pending_merge_events' = Pop(pending_merge_events, c, 0)
           /\ pending_merge_first_event' = Pop(pending_merge_first_event, c, 0)
           /\ pending_merge_tasks' = Pop(pending_merge_tasks, c, NoTask)
           /\ pending_merge_first_ts' = Pop(pending_merge_first_ts, c, NoTs)
           /\ handled' =
                 IF event = 0 \/ combined_text = <<>>
                 THEN handled
                 ELSE Append(handled,
                             Call(c, combined_text, event,
                                  IF first_event # 0 THEN first_event ELSE event,
                                  t, pending_merge_first_ts[c]))
    /\ tasks' = [tasks EXCEPT ![t].st = "done"]
    /\ UNCHANGED <<now, pipeVars, cfgVars, fnVars, guiVars, ctlVars, streamVars, max_wait, nextTask, nextMsg, arrival, stopped>>

\* shutdown: every pending task is cancelled
Shutdown ==
    /\ ~stopped
    /\ stopped' = TRUE
    /\ tasks' = [t \in TaskIds |-> Cancel(tasks[t])]
    /\ UNCHANGED <<now, pipeVars, cfgVars, fnVars, guiVars, ctlVars, streamVars, max_wait, pending_merge_messages,
                   pending_merge_events, pending_merge_first_event,
                   pending_merge_first_ts, pending_merge_tasks, nextTask,
                   nextMsg, arrival, handled>>

\* time passes while the bot runs (no timer is due, no woken task is waiting
\* to run)
ClockTick ==
    /\ now < MaxClock
    /\ ~stopped
    /\ \A t \in TaskIds : Live(t) => (~tasks[t].fired /\ tasks[t].due > now)
    /\ now' = now + 1
    /\ UNCHANGED <<pipeVars, mergeVars, cfgVars, fnVars, guiVars, ctlVars, streamVars>>

InitMerge ==
    /\ now = 0
    /\ PipeInit(CfgRetries, CfgTtl, DefaultMaxConcurrency)
    /\ \E w \in {0, CfgMaxWait} : MergeInit(w) /\ NoCall /\ GuiInit /\ CtlInit

NextMerge ==
    \/ \E c \in NextChats({ arrival[m].chat : m \in 1..(nextMsg - 1) }) :
          \E kind \in {"text", "voice", "skip"} : ScheduleMergedReply(c, kind)
    \/ \E t \in TaskIds : TimerElapse(t)
    \/ \E t \in TaskIds : WaitAndReply(t)
    \/ Shutdown
    \/ ClockTick

SpecMerge == InitMerge /\ [][NextMerge]_vars

(***************************************************************************)
(* SpecTrim: the token estimate and _trim_history_by_tokens applied on     *)
(* their own to bounded lists of turns and budgets.                        *)
(***************************************************************************)
MaxTurns == 3       \* longest list of turns given to the trimmer
MaxCjk == 2         \* most CJK characters in one content
MaxAsciiLen == 8    \* most non-CJK characters in one content
MaxBudget == 24     \* largest token budget
MaxApply == 2       \* applications of the trimmer in a row

CjkLo == 19968      \* "\u4e00"
CjkHi == 40959      \* "\u9fff"

\* "\u4e00" <= ch <= "\u9fff"
IsCjk(ch) == CjkLo <= ch /\ ch <= CjkHi

\* a content of k CJK characters followed by a other characters
Text(k, a) == [i \in 1..(k + a) |-> IF i <= k THEN CjkLo ELSE 97]

Contents == { Text(k, a) : k \in {0, MaxCjk}, a \in {0, 1, MaxAsciiLen} }

\* AIClient._estimate_text_tokens
EstimateTextTokens(text) ==
    IF text = <<>> THEN 0
    ELSE LET cjk == Cardinality({ i \in DOMAIN text : IsCjk(text[i]) })
             ascii_count == Max(0, Len(text) - cjk)
             ascii_tokens == IF ascii_count # 0 THEN Max(1, ascii_count \div 4) ELSE 0
         IN  cjk + ascii_tokens

\* AIClient._estimate_message_tokens
EstimateMessageTokens(message) == EstimateTextTokens(message.content) + 4

\* AIClient._estimate_messages_tokens
RECURSIVE EstimateMessagesTokens(_)
EstimateMessagesTokens(messages) ==
    IF messages = <<>> THEN 0
    ELSE EstimateMessageTokens(Head(messages)) + EstimateMessagesTokens(Tail(messages))

\* the first break of the loop taken whatever has been kept
Overflows_always(total, msg_tokens, max_tokens, kept) == total + msg_tokens > max_tokens

\* the first break of the loop testing the total before the turn is counted
Overflows_late(total, msg_tokens, max_tokens, kept) == total > max_tokens /\ kept # <<>>

\* _trim_history_by_tokens: "if total + msg_tokens > max_tokens and kept: break"
Overflows(total, msg_tokens, max_tokens, kept) ==
    total + msg_tokens > max_tokens /\ kept # <<>>

\* the kept turns returned in the order they were collected
Reversed_mut(kept) == kept

\* list(reversed(kept))
Reversed(kept) == [i \in 1..Len(kept) |-> kept[Len(kept) + 1 - i]]

\* the loop of _trim_history_by_tokens over reversed(history), at turn i
RECURSIVE TrimLoop(_, _, _, _, _)
TrimLoop(history, max_tokens, i, total, kept) ==
    IF i = 0 THEN kept
    ELSE LET msg_tokens == EstimateMessageTokens(history[i])
         IN  IF Overflows(total, msg_tokens, max_tokens, kept) THEN kept
             ELSE IF total + msg_tokens >= max_tokens THEN Append(kept, history[i])
             ELSE TrimLoop(history, max_tokens, i - 1, total + msg_tokens,
                           Append(kept, history[i]))

\* AIClient._trim_history_by_tokens
TrimHistoryByTokens(history, max_tokens) ==
    IF history = <<>> \/ max_tokens <= 0 THEN <<>>
    ELSE Reversed(TrimLoop(history, max_tokens, Len(history), 0, <<>>))

\* the lists of turns given to the trimmer: user and assistant turns in turn
TurnLists ==
    UNION { { [i \in 1..n |-> Turn(IF i % 2 = 1 THEN "user" ELSE "assistant", cs[i])] :
                cs \in [1..n -> Contents] } : n \in 0..MaxTurns }

Budgets == (0 - 1)..MaxBudget

\* the list the next application of the trimmer is given
TrimInput(k) == IF k = 1 THEN args.history ELSE ret[k - 1]

InitTrim ==
    /\ now = 0
    /\ PipeInit(CfgRetries, CfgTtl, DefaultMaxConcurrency)
    /\ MergeInit(0)
    /\ GuiInit /\ CtlInit
    /\ fn = "_trim_history_by_tokens"
    /\ args \in [history : TurnLists, max_tokens : Budgets]
    /\ ret = <<>>

\* one call of _trim_history_by_tokens, on the result of the call before it
CallTrimHistoryByTokens ==
    /\ fn = "_trim_history_by_tokens"
    /\ Len(ret) < MaxApply
    /\ ret' = Append(ret, TrimHistoryByTokens(TrimInput(Len(ret) + 1), args.max_tokens))
    /\ UNCHANGED <<now, pipeVars, mergeVars, streamVars, cfgVars, guiVars, ctlVars, fn, args>>

NextTrim == CallTrimHistoryByTokens

SpecTrim == InitTrim /\ [][NextTrim]_vars

(***************************************************************************)
(* SpecBuild: _build_messages applied on its own to a stored history, an   *)
(* injected memory context, a system prompt and a token limit.             *)
(***************************************************************************)
MaxMemory == 2           \* most items in the injected memory context
MaxContextTokens == 36   \* largest context_max_tokens
HeaderLen == 45          \* len("Previous conversation memory (from local db):")

\* context_max_tokens: <<>> when it is None, <<n>> when it is the integer n
Unset == <<>>

\* "Previous conversation memory (from local db):", no CJK character
HeaderText == [i \in 1..HeaderLen |-> 80]

\* _build_messages: memory_header
MemoryHeader == Turn("system", HeaderText)

\* str(role).strip().lower() on the roles a memory item may carry
CleanRole(role) ==
    CASE role = " Assistant " -> "assistant"
      [] role = "USER" -> "user"
      [] OTHER -> role

\* the items a memory provider may give: kept as they are, kept after
\* cleaning, or dropped (no content, blank content)
MemoryItems ==
    { [role |-> "user",        content |-> Text(0, 1)],
      [role |-> " Assistant ", content |-> <<SP>> \o Text(1, 4) \o <<NL>>],
      [role |-> "tool",        content |-> Text(MaxCjk, 0)],
      [role |-> "user",        content |-> <<SP, SP>>],
      [role |-> "system",      content |-> Null] }

RECURSIVE NormalizeMemoryContext(_)
\* AIClient._normalize_memory_context
NormalizeMemoryContext(memory_context) ==
    IF memory_context = <<>> THEN <<>>
    ELSE LET msg == Head(memory_context)
             role == CleanRole(msg.role)
             rest == NormalizeMemoryContext(Tail(memory_context))
         IN  IF role = "" \/ msg.content = Null THEN rest
             ELSE IF Strip(msg.content) = <<>> THEN rest
             ELSE <<Turn(IF role \in {"user", "assistant", "system"} THEN role ELSE "user",
                         Strip(msg.content))>> \o rest

\* "if self.context_max_tokens:"
Limited(context_max_tokens) ==
    context_max_tokens # Unset /\ context_max_tokens[1] # 0

\* _build_messages: prompt = self.system_prompt if system_prompt is None else system_prompt
Prompt(own_prompt, system_prompt) ==
    IF system_prompt = Null THEN own_prompt ELSE system_prompt

\* _build_messages: the budget left after the prompt and the user turn
BaseBudget(context_max_tokens, prompt, user_text) ==
    LET prompt_tokens == IF prompt # <<>>
                         THEN EstimateMessageTokens(Turn("system", prompt)) ELSE 0
        user_tokens == EstimateMessageTokens(Turn("user", user_text))
    IN  Max(0, context_max_tokens[1] - prompt_tokens - user_tokens)

\* _build_messages: the budget the memory turns are trimmed to
MemoryBudget(budget, cleaned) ==
    IF cleaned # <<>> THEN Max(0, budget - EstimateMessageTokens(MemoryHeader)) ELSE budget

\* _build_messages: memory_messages after the token trimming
KeptMemory(a) ==
    LET cleaned == NormalizeMemoryContext(a.memory_context)
        prompt == Prompt(a.own_prompt, a.system_prompt)
    IN  IF Limited(a.context_max_tokens) /\ cleaned # <<>>
        THEN TrimHistoryByTokens(cleaned,
                 MemoryBudget(BaseBudget(a.context_max_tokens, prompt, a.user_text), cleaned))
        ELSE cleaned

\* _build_messages: history after the token trimming
KeptHistory(a) ==
    LET cleaned == NormalizeMemoryContext(a.memory_context)
        prompt == Prompt(a.own_prompt, a.system_prompt)
    IN  IF Limited(a.context_max_tokens)
        THEN LET budget == MemoryBudget(BaseBudget(a.context_max_tokens, prompt, a.user_text),
                                        cleaned)
                 left == IF cleaned # <<>>
                         THEN Max(0, budget - EstimateMessagesTokens(KeptMemory(a)))
                         ELSE budget
             IN  TrimHistoryByTokens(a.history, left)
        ELSE a.history

\* the header put in front of the memory whenever a memory was given
MemoryBlock_mut(cleaned, memory_messages) ==
    IF cleaned # <<>> THEN <<MemoryHeader>> \o memory_messages ELSE <<>>

\* _build_messages: "if memory_messages: if memory_header: append; extend"
MemoryBlock(cleaned, memory_messages) ==
    IF memory_messages # <<>>
    THEN (IF cleaned # <<>> THEN <<MemoryHeader>> ELSE <<>>) \o memory_messages
    ELSE <<>>

\* AIClient._build_messages: the messages of the request
BuildMessages(a) ==
    LET prompt == Prompt(a.own_prompt, a.system_prompt)
    IN  (IF prompt # <<>> THEN <<Turn("system", prompt)>> ELSE <<>>)
        \o MemoryBlock(NormalizeMemoryContext(a.memory_context), KeptMemory(a))
        \o KeptHistory(a)
        \o <<Turn("user", a.user_text)>>

\* the sequences over the set S of length at most n
SeqsUpTo(S, n) == UNION { [1..k -> S] : k \in 0..n }

\* the stored turns _build_messages may read
StoredTurns ==
    { [i \in 1..Len(cs) |-> Turn(IF i % 2 = 1 THEN "user" ELSE "assistant", cs[i])] :
        cs \in SeqsUpTo({Text(0, 1), Text(MaxCjk, 0)}, MaxMemory) }

ContextLimits == {Unset} \cup { <<n>> : n \in (0 - 1)..MaxContextTokens }

InitBuild ==
    /\ now = 0
    /\ PipeInit(CfgRetries, CfgTtl, DefaultMaxConcurrency)
    /\ MergeInit(0)
    /\ GuiInit /\ CtlInit
    /\ fn = "_build_messages"
    /\ args \in [history : StoredTurns,
                 user_text : {Text(0, 1)},
                 own_prompt : {Text(0, MaxAsciiLen)},
                 system_prompt : {Null, <<>>},
                 memory_context : SeqsUpTo(MemoryItems, MaxMemory),
                 context_max_tokens : ContextLimits]
    /\ ret = <<>>

\* one call of _build_messages
CallBuildMessages ==
    /\ fn = "_build_messages"
    /\ ret = <<>>
    /\ ret' = <<BuildMessages(args)>>
    /\ UNCHANGED <<now, pipeVars, mergeVars, streamVars, cfgVars, guiVars, ctlVars, fn, args>>

NextBuild == CallBuildMessages

SpecBuild == InitBuild /\ [][NextBuild]_vars

(***************************************************************************)
(* SpecLive: handle_event executions that send their reply under the GUI   *)
(* lock, with fair scheduling.  A streamed reply is sent piece by piece     *)
(* while the generator holds the conversation lock, a synchronous reply     *)
(* after generate_reply has released it.  The critical sections of the      *)
(* pending-merge lock contain no suspension point (schedule_merged_reply,   *)
(* wait_and_reply): they are the single steps of SpecMerge and hold no      *)
(* other lock.                                                              *)
(***************************************************************************)
MaxSends == 1       \* send_reply_chunks calls of one execution

\* mutation: the lock stays taken when the GUI call has returned
WxRelease_mut(r) == r

\* leaving "async with wx_lock": the lock is free again
WxRelease(r) == 0

\* send_reply_chunks: "async with wx_lock" is reached, by the consumer of a
\* stream for the piece it was given or by _send_smart_reply for the reply
SendReplyChunks(r) ==
    /\ UnderSem(r)
    /\ pc[r] \in {"yielded", "replying"}
    /\ sending[r] = "no"
    /\ sends[r] < MaxSends
    /\ sends' = [sends EXCEPT ![r] = @ + 1]
    /\ IF wx_lock = 0 /\ wx_waiters = <<>>
       THEN /\ wx_lock' = r
            /\ sending' = [sending EXCEPT ![r] = "hold"]
            /\ UNCHANGED wx_waiters
       ELSE /\ wx_waiters' = Append(wx_waiters, r)
            /\ sending' = [sending EXCEPT ![r] = "wait"]
            /\ UNCHANGED wx_lock
    /\ UNCHANGED <<now, pipeVars, mergeVars, streamVars, cfgVars, fnVars, ctlVars>>

\* the first waiter of wx_lock is woken by a release and takes the lock
WxWake(r) ==
    /\ sending[r] = "wait"
    /\ wx_lock = 0
    /\ wx_waiters # <<>>
    /\ Head(wx_waiters) = r
    /\ wx_lock' = r
    /\ wx_waiters' = Tail(wx_waiters)
    /\ sending' = [sending EXCEPT ![r] = "hold"]
    /\ UNCHANGED <<now, pipeVars, mergeVars, streamVars, cfgVars, fnVars, ctlVars, sends>>

\* the GUI call (send_message / send_quote_message in a thread) returns, with
\* success or failure: "async with wx_lock" is left
SendReturn(r) ==
    /\ sending[r] = "hold"
    /\ wx_lock' = WxRelease(r)
    /\ sending' = [sending EXCEPT ![r] = "no"]
    /\ UNCHANGED <<now, pipeVars, mergeVars, streamVars, cfgVars, fnVars, ctlVars, wx_waiters, sends>>

\* the execution is not inside send_reply_chunks
NotSending(r) == sending[r] = "no"

\* one attempt per request (max_retries = 0): the retry loop is that of SpecRetry
InitLive ==
    /\ now = 0
    /\ \E cap \in {LimiterCap, LimiterCap + 1} : PipeInit(0, 0, cap)
    /\ MergeInit(0) /\ NoCall /\ GuiInit /\ CtlInit

\* the transport call of r returns: a response, a line of the stream or an error
TransportStep(r) ==
    \/ \E resp \in CancelResponses(r) : TransportReturn(r, resp)
    \/ \E line \in CancelLines(r) : StreamLine(r, line)
    \/ StreamError(r, "httpx.HTTPError")

NextLive ==
    \/ \E c \in NextChats({ chatOf[r] : r \in 1..(nextReq - 1) }) :
          nextReq <= MaxTasks /\ HandleEvent(c)
    \/ \E r \in Reqs : SemWake(r)
    \/ \E r \in Reqs : GenerateReply(r)
    \/ \E r \in Reqs : GenerateReplyStream(r)
    \/ \E r \in Reqs : LockWake(r)
    \/ \E r \in Reqs : TransportStep(r)
    \/ \E r \in Reqs : NotSending(r) /\ ConsumerNext(r)
    \/ \E r \in Reqs : NotSending(r) /\ sends[r] > 0 /\ ConsumerStop(r)
    \/ \E r \in Reqs : AClose(r)
    \/ \E r \in Reqs : SendReplyChunks(r)
    \/ \E r \in Reqs : WxWake(r)
    \/ \E r \in Reqs : SendReturn(r)
    \/ \E r \in Reqs : NotSending(r) /\ Finish(r)

\* a step of execution r that needs nothing but the event loop running its
\* task, a transport call, a sleep or a GUI call returning, or the finalizer
\* of an abandoned generator
Progress(r) ==
    \/ SemWake(r)
    \/ GenerateReply(r)
    \/ GenerateReplyStream(r)
    \/ LockWake(r)
    \/ TransportStep(r)
    \/ NotSending(r) /\ ConsumerNext(r)
    \/ AClose(r)
    \/ WxWake(r)
    \/ SendReturn(r)
    \/ NotSending(r) /\ Finish(r)

\* the event loop does not idle while a task is ready: transport calls,
\* sleeps and GUI calls return, an abandoned generator is finalized
FairLive == WF_vars(\E r \in 1..MaxTasks : Progress(r))

SpecLive == InitLive /\ [][NextLive]_vars /\ FairLive

(***************************************************************************)
(* SpecParallel: handle_event executions of several conversations under a  *)
(* limiter with more than one slot.                                        *)
(***************************************************************************)
InitParallel ==
    /\ now = 0
    /\ PipeInit(0, 0, LimiterCap + 1)
    /\ MergeInit(0) /\ NoCall /\ GuiInit /\ CtlInit

NextParallel ==
    \/ \E c \in NextChats({ chatOf[r] : r \in 1..(nextReq - 1) }) : HandleEvent(c)
    \/ \E r \in Reqs : SemWake(r)
    \/ \E r \in Reqs : GenerateReply(r)
    \/ \E r \in Reqs : LockWake(r)
    \/ \E r \in Reqs : \E resp \in CancelResponses(r) : TransportReturn(r, resp)
    \/ \E r \in Reqs : Finish(r)

SpecParallel == InitParallel /\ [][NextParallel]_vars

(***************************************************************************)
(* SpecSend: parse_send_result and send_quote_message applied on their own *)
(* to the results a send or quote call of the GUI library may give.        *)
(***************************************************************************)
QuoteRetryDelayMs == 300    \* time.sleep(0.3)
QuoteAttempts == 2          \* range(2)

\* a result of wx.SendMsg or quote(): an object with an is_success
\* attribute, a dict, or any other value; "absent" is a missing key or
\* attribute, "none" is None
ResultOf(kind, truthy, is_success, status, success, code, message, error) ==
    [kind |-> kind, truthy |-> truthy, is_success |-> is_success, status |-> status,
     success |-> success, code |-> code, message |-> message, error |-> error]

Texts == {"absent", "", "done"}

\* the results with an is_success attribute; bool(result) is the object's own
SendObjects ==
    { ResultOf("object", t, s, "absent", "absent", "absent", m, e) :
        t \in BOOLEAN, s \in BOOLEAN, m \in Texts, e \in {"absent", "failed"} }

SendDicts ==
    { ResultOf("dict", TRUE, FALSE, st, su, co, m, e) :
        st \in {"absent", "none", "ok", "other"}, su \in {"absent", "true", "false"},
        co \in {"absent", "none", "int0", "str0", "int1"},
        m \in {"absent", "done"}, e \in {"absent", "failed"} }

\* a plain value: a non-empty string, or None
SendValues ==
    { ResultOf("value", t, FALSE, "absent", "absent", "absent", "absent", "absent") :
        t \in BOOLEAN }

\* dict.get / getattr(..., None)
Get(v) == IF v = "absent" THEN "none" ELSE v

\* Python's "a or b" on two optional strings
Or(a, b) == IF a \in {"none", ""} THEN b ELSE a

\* parse_send_result
ParseSendResult(res) ==
    LET message == Get(res.message)
        fallback == Or(message, Get(res.error))
    IN  IF res.kind = "object"
        THEN [ok |-> res.truthy, message |-> fallback]
        ELSE IF res.kind = "dict"
        THEN IF res.status # "absent"
             THEN IF res.status # "ok"
                  THEN [ok |-> FALSE, message |-> fallback]
                  ELSE [ok |-> TRUE, message |-> message]
             ELSE IF res.success = "false"
             THEN [ok |-> FALSE, message |-> fallback]
             ELSE IF res.code \notin {"absent", "int0", "str0", "none"}
             THEN [ok |-> FALSE, message |-> fallback]
             ELSE [ok |-> TRUE, message |-> message]
        ELSE IF res.truthy
        THEN [ok |-> TRUE, message |-> "none"]
        ELSE [ok |-> FALSE, message |-> "falsy"]

\* what one call of quote() does: it raises exc, or returns result
Outcome(exc, res) == [exc |-> exc, result |-> res]

Raises == { Outcome(cls, CHOOSE v \in SendValues : ~v.truthy) : cls \in {"Exception", "TimeoutError"} }

Returns ==
    { Outcome("none", v) :
        v \in SendValues \cup { o \in SendObjects : o.message = "done" /\ o.error = "absent" } }

\* what send_quote_message returns, with the quote calls and sleeps it made
QuoteResult(ok, message, calls, sleeps, escaped) ==
    [ok |-> ok, message |-> message, calls |-> calls, sleeps |-> sleeps, raised |-> escaped]

RECURSIVE QuoteLoop(_, _, _, _)
\* send_quote_message: "for attempt in range(2)", attempt = n
QuoteLoop(n, outcomes, calls, sleeps) ==
    IF n = QuoteAttempts
    THEN QuoteResult(FALSE, "quote retry exhausted", calls, sleeps, FALSE)
    ELSE LET o == outcomes[n + 1]
         IN  IF o.exc # "none"
             THEN IF ~Caught(o.exc)
                  THEN QuoteResult(FALSE, o.exc, calls + 1, sleeps, TRUE)
                  ELSE IF n = 0
                  THEN QuoteLoop(n + 1, outcomes, calls + 1,
                                 Append(sleeps, QuoteRetryDelayMs))
                  ELSE QuoteResult(FALSE, o.exc, calls + 1, sleeps, FALSE)
             ELSE IF ParseSendResult(o.result).ok
             THEN QuoteResult(TRUE, "none", calls + 1, sleeps, FALSE)
             ELSE IF n = 0
             THEN QuoteLoop(n + 1, outcomes, calls + 1,
                            Append(sleeps, QuoteRetryDelayMs))
             ELSE QuoteLoop(n + 1, outcomes, calls + 1, sleeps)

\* send_quote_message; quote_item is "none" (None), "plain" (no callable
\* quote attribute) or "item"
SendQuoteMessage(quote_item, outcomes) ==
    IF quote_item = "none" THEN QuoteResult(FALSE, "no quote item", 0, <<>>, FALSE)
    ELSE IF quote_item = "plain" THEN QuoteResult(FALSE, "no quote method", 0, <<>>, FALSE)
    ELSE QuoteLoop(0, outcomes, 0, <<>>)

InitSend ==
    /\ now = 0
    /\ PipeInit(CfgRetries, CfgTtl, DefaultMaxConcurrency)
    /\ MergeInit(0)
    /\ GuiInit /\ CtlInit
    /\ ret = <<>>
    /\ \/ /\ fn = "parse_send_result"
          /\ args \in [result : SendObjects \cup SendDicts \cup SendValues]
       \/ /\ fn = "send_quote_message"
          /\ args \in [quote_item : {"none", "plain", "item"},
                       outcomes : [1..QuoteAttempts -> Raises \cup Returns]]

\* one call of parse_send_result
CallParseSendResult ==
    /\ fn = "parse_send_result"
    /\ ret = <<>>
    /\ ret' = <<ParseSendResult(args.result)>>
    /\ UNCHANGED <<now, pipeVars, mergeVars, streamVars, cfgVars, guiVars, ctlVars, fn, args>>

\* one call of send_quote_message
CallSendQuoteMessage ==
    /\ fn = "send_quote_message"
    /\ ret = <<>>
    /\ ret' = <<SendQuoteMessage(args.quote_item, args.outcomes)>>
    /\ UNCHANGED <<now, pipeVars, mergeVars, streamVars, cfgVars, guiVars, ctlVars, fn, args>>

NextSend == CallParseSendResult \/ CallSendQuoteMessage

SpecSend == InitSend /\ [][NextSend]_vars

(***************************************************************************)
(* WeChatBot.run: initialize, the polling loop, the tasks it creates and   *)
(* shutdown.  A task is at "new" (created, not started), "sleeping"        *)
(* (wait_and_reply in asyncio.sleep), "await" (suspended inside            *)
(* handle_event), "finally" (handle_event's finally block, awaiting the    *)
(* removal of the image) or "done".                                        *)
(***************************************************************************)
MaxPolls == 2
MaxRunTasks == 3

botVars == <<now, pipeVars, mergeVars, streamVars, cfgVars, fnVars, guiVars>>

outsideRun == <<botVars, mgrVars, cmdVars, ipcVars>>

InitResults == {"ok", "config_error", "no_wechat"}

TaskKinds == {"handle_event", "schedule_merged_reply"}

RunTaskIds == 1..(nextRunTask - 1)

NewTask(kind) == [kind |-> kind, st |-> "new", must_cancel |-> FALSE]

\* run() is called; initialize() will end as res
RunInit(res) ==
    /\ run_pc = "initialize"
    /\ init_result = res
    /\ stop_event = FALSE
    /\ polls = 0
    /\ pending_tasks = {}
    /\ run_tasks = <<>>
    /\ nextRunTask = 1
    /\ gathered = {}
    /\ closed = <<>>

\* wx = await self.initialize(); if not wx: return
Initialize ==
    /\ run_pc = "initialize"
    /\ run_pc' = IF init_result = "ok" THEN "while" ELSE "returned"
    /\ UNCHANGED <<init_result, stop_event, polls, pending_tasks, run_tasks,
                   nextRunTask, gathered, closed, outsideRun>>

\* self._stop_event.set(), by whoever holds the event
SetStopEvent ==
    /\ run_pc \notin {"none", "returned"}
    /\ ~stop_event
    /\ stop_event' = TRUE
    /\ UNCHANGED <<run_pc, init_result, polls, pending_tasks, run_tasks,
                   nextRunTask, gathered, closed, outsideRun>>

\* _should_stop()
ShouldStop == stop_event

\* while not self._should_stop():
LoopTest ==
    /\ run_pc = "while"
    /\ IF ShouldStop
       THEN run_pc' = "shutdown" /\ UNCHANGED polls
       ELSE /\ polls < MaxPolls
            /\ run_pc' = "poll"
            /\ polls' = polls + 1
    /\ UNCHANGED <<init_result, stop_event, pending_tasks, run_tasks,
                   nextRunTask, gathered, closed, outsideRun>>

\* one loop body: the poll returns events (a task is created for each), the
\* poll fails (continue), another exception is caught, or KeyboardInterrupt
\* breaks the loop
PollOnce(outcome, kinds) ==
    /\ run_pc = "poll"
    /\ nextRunTask + Len(kinds) - 1 <= MaxRunTasks
    /\ outcome # "events" => kinds = <<>>
    /\ run_pc' = CASE outcome = "events" -> "sleep"
                   [] outcome = "poll_error" -> "while"
                   [] outcome = "exception" -> "sleep"
                   [] outcome = "KeyboardInterrupt" -> "shutdown"
    /\ run_tasks' = run_tasks \o [i \in 1..Len(kinds) |-> NewTask(kinds[i])]
    /\ nextRunTask' = nextRunTask + Len(kinds)
    /\ pending_tasks' = pending_tasks \cup (nextRunTask..(nextRunTask + Len(kinds) - 1))
    /\ UNCHANGED <<init_result, stop_event, polls, gathered, closed, outsideRun>>

\* await asyncio.sleep(poll_interval)
PollSleep ==
    /\ run_pc = "sleep"
    /\ run_pc' = "while"
    /\ UNCHANGED <<init_result, stop_event, polls, pending_tasks, run_tasks,
                   nextRunTask, gathered, closed, outsideRun>>

\* shutdown: task.cancel() for every pending task, then gather them
RunShutdown ==
    /\ run_pc = "shutdown"
    /\ IF pending_tasks = {}
       THEN run_pc' = "close_ai" /\ UNCHANGED <<run_tasks, gathered>>
       ELSE /\ run_tasks' = [t \in RunTaskIds |->
                 IF t \in pending_tasks /\ run_tasks[t].st # "done"
                 THEN [run_tasks[t] EXCEPT !.must_cancel = TRUE]
                 ELSE run_tasks[t]]
            /\ gathered' = pending_tasks
            /\ run_pc' = "gather"
    /\ UNCHANGED <<init_result, stop_event, polls, pending_tasks, nextRunTask,
                   closed, outsideRun>>

\* mutation: gather returns without waiting
Awaited_mut(ts) == TRUE

\* asyncio.gather(*ts, return_exceptions=True) can return
Awaited(ts) == \A t \in ts : run_tasks[t].st = "done"

\* await asyncio.gather(...) returns
GatherReturn ==
    /\ run_pc = "gather"
    /\ Awaited(gathered)
    /\ run_pc' = "close_ai"
    /\ UNCHANGED <<init_result, stop_event, polls, pending_tasks, run_tasks,
                   nextRunTask, gathered, closed, outsideRun>>

\* await self.ai_client.close()
CloseAiClient ==
    /\ run_pc = "close_ai"
    /\ closed' = Append(closed, "ai_client")
    /\ run_pc' = "close_memory"
    /\ UNCHANGED <<init_result, stop_event, polls, pending_tasks, run_tasks,
                   nextRunTask, gathered, outsideRun>>

\* await self.memory.close(); run() returns
CloseMemory ==
    /\ run_pc = "close_memory"
    /\ closed' = Append(closed, "memory")
    /\ run_pc' = "returned"
    /\ UNCHANGED <<init_result, stop_event, polls, pending_tasks, run_tasks,
                   nextRunTask, gathered, outsideRun>>

\* the first step of a task.  A task cancelled before it started never runs
\* its body.  schedule_merged_reply runs to its end without suspending,
\* unless the message is a voice message (then it awaits handle_event).
TaskStart(t, how) ==
    /\ t \in RunTaskIds
    /\ run_tasks[t].st = "new"
    /\ IF run_tasks[t].must_cancel
       THEN /\ how = "cancelled"
            /\ run_tasks' = [run_tasks EXCEPT ![t].st = "done"]
            /\ UNCHANGED <<nextRunTask, pending_tasks>>
       ELSE
       CASE run_tasks[t].kind = "handle_event" ->
              /\ how = "handle_event"
              /\ run_tasks' = [run_tasks EXCEPT ![t].st = "await"]
              /\ UNCHANGED <<nextRunTask, pending_tasks>>
         [] run_tasks[t].kind = "wait_and_reply" ->
              /\ how = "sleep"
              /\ run_tasks' = [run_tasks EXCEPT ![t].st = "sleeping"]
              /\ UNCHANGED <<nextRunTask, pending_tasks>>
         [] run_tasks[t].kind = "schedule_merged_reply" ->
              \/ /\ how = "voice"
                 /\ run_tasks' = [run_tasks EXCEPT ![t].st = "await"]
                 /\ UNCHANGED <<nextRunTask, pending_tasks>>
              \/ /\ how = "skip"
                 /\ run_tasks' = [run_tasks EXCEPT ![t].st = "done"]
                 /\ UNCHANGED <<nextRunTask, pending_tasks>>
              \/ /\ how = "text"
                 /\ nextRunTask <= MaxRunTasks
                 /\ run_tasks' = Append([run_tasks EXCEPT ![t].st = "done"],
                                        NewTask("wait_and_reply"))
                 /\ pending_tasks' = pending_tasks \cup {nextRunTask}
                 /\ nextRunTask' = nextRunTask + 1
    /\ UNCHANGED <<run_pc, init_result, stop_event, polls, gathered, closed,
                   outsideRun>>

\* a suspended task is resumed.  With a cancel request CancelledError is
\* thrown into it: wait_and_reply returns, handle_event unwinds (through its
\* finally block when an image was saved).
TaskResume(t, how) ==
    /\ t \in RunTaskIds
    /\ LET task == run_tasks[t] IN
       /\ task.st \in {"sleeping", "await", "finally"}
       /\ run_tasks' = [run_tasks EXCEPT ![t].st =
             CASE task.st = "sleeping" /\ task.must_cancel -> "done"
               [] task.st = "sleeping" -> IF how = "reply" THEN "await" ELSE "done"
               [] task.st = "await" -> IF how = "image" THEN "finally" ELSE "done"
               [] task.st = "finally" -> "done"]
       /\ how \in (CASE task.st = "sleeping" /\ task.must_cancel -> {"return"}
                     [] task.st = "sleeping" -> {"reply", "return"}
                     [] task.st = "await" -> {"image", "return"}
                     [] task.st = "finally" -> {"return"})
    /\ UNCHANGED <<run_pc, init_result, stop_event, polls, pending_tasks,
                   nextRunTask, gathered, closed, outsideRun>>

\* the done callback of a task: self.pending_tasks.discard
Discard(t) ==
    /\ t \in pending_tasks
    /\ run_tasks[t].st = "done"
    /\ pending_tasks' = pending_tasks \ {t}
    /\ UNCHANGED <<run_pc, init_result, stop_event, polls, run_tasks,
                   nextRunTask, gathered, closed, outsideRun>>

InitRun ==
    /\ now = 0
    /\ PipeInit(0, 0, DefaultMaxConcurrency)
    /\ MergeInit(0) /\ NoCall /\ GuiInit /\ MgrInit /\ ControlInit({}) /\ IpcInit
    /\ \E res \in InitResults : RunInit(res)

\* one step of the run() coroutine
RunStep ==
    \/ Initialize
    \/ LoopTest
    \/ \E outcome \in {"poll_error", "exception", "KeyboardInterrupt"} :
          PollOnce(outcome, <<>>)
    \/ \E kinds \in {<<>>} \cup { <<k>> : k \in TaskKinds } : PollOnce("events", kinds)
    \/ PollSleep
    \/ RunShutdown
    \/ GatherReturn
    \/ CloseAiClient
    \/ CloseMemory

\* one step of a task
TaskStep(t) ==
    \/ \E how \in {"cancelled", "handle_event", "sleep", "voice", "skip", "text"} :
          TaskStart(t, how)
    \/ \E how \in {"reply", "image", "return"} : TaskResume(t, how)
    \/ Discard(t)

NextRun ==
    \/ RunStep
    \/ \E t \in 1..MaxRunTasks : TaskStep(t)
    \/ SetStopEvent

\* the event loop runs every coroutine that is ready
FairRun == WF_vars(RunStep) /\ \A t \in 1..MaxRunTasks : WF_vars(TaskStep(t))

SpecRun == InitRun /\ [][NextRun]_vars /\ FairRun

(***************************************************************************)
(* SpecFallback: main.handle_event with stream_reply enabled.  The turn    *)
(* consumes the stream; when the stream gave it nothing it issues the      *)
(* synchronous generate_reply.                                             *)
(***************************************************************************)
\* full_reply of the consumer: the pieces it received, concatenated
FullReply(r) == Concat([i \in 1..Len(yielded[r]) |-> yielded[r][i].chunk])

\* mutation: used_stream is reset whenever nothing was sent
UsedStream_mut(full_reply, stream_sent_any) == stream_sent_any

\* used_stream after the "async for": reset by
\* "if not full_reply and not stream_sent_any"
UsedStream(full_reply, stream_sent_any) == ~(full_reply = <<>> /\ ~stream_sent_any)

\* "if not used_stream: reply = await ai_client.generate_reply(...)" after the
\* stream of the turn has ended.  stream_sent_any is true only when a piece
\* was sent, hence received.
SyncFallback(r, stream_sent_any) ==
    /\ pc[r] = "replying"
    /\ streaming[r] /\ ~fell_back[r] /\ ~raised[r]
    /\ stream_sent_any => yielded[r] # <<>>
    /\ ~UsedStream(FullReply(r), stream_sent_any)
    /\ fell_back' = [fell_back EXCEPT ![r] = TRUE]
    /\ stream_appended' = [stream_appended EXCEPT ![r] = appended[r]]
    /\ appended' = [appended EXCEPT ![r] = None]
    /\ streaming' = [streaming EXCEPT ![r] = FALSE]
    /\ EnterGenerateReply(r, chatOf[r])
    /\ UNCHANGED <<nextReq, chatOf, semOf, waits, reply_parts, sent_any, yielded,
                   raised>>

\* the lines the endpoint of SpecFallback streams: a reply, blanks only, or
\* the end of the stream
FallbackLines(r) ==
    { line \in StreamLines(r) :
        line.tag = "done" \/ line.delta = ReplyText(r) \/ line.delta = <<SP>> }

InitFallback ==
    /\ now = 0
    /\ PipeInit(0, 0, DefaultMaxConcurrency)
    /\ MergeInit(0) /\ NoCall /\ GuiInit /\ CtlInit

NextFallback ==
    \/ \E c \in NextChats({ chatOf[r] : r \in 1..(nextReq - 1) }) :
          nextReq <= MaxTasks /\ HandleEvent(c)
    \/ \E r \in Reqs : GenerateReplyStream(r)
    \/ \E r \in Reqs : LockWake(r)
    \/ \E r \in Reqs : \E line \in FallbackLines(r) : StreamLine(r, line)
    \/ \E r \in Reqs : StreamError(r, "httpx.HTTPError")
    \/ \E r \in Reqs : ConsumerNext(r)
    \/ \E r \in Reqs : ConsumerStop(r)
    \/ \E r \in Reqs : AClose(r)
    \/ \E r \in Reqs : \E stream_sent_any \in BOOLEAN : SyncFallback(r, stream_sent_any)
    \/ \E r \in Reqs : \E resp \in CancelResponses(r) : TransportReturn(r, resp)
    \/ \E r \in Reqs : Finish(r)

SpecFallback == InitFallback /\ [][NextFallback]_vars

(***************************************************************************)
(* BotManager: start, stop, restart, pause and resume, and the _run_bot    *)
(* task.  start and stop run under BotManager._lock; pause and resume      *)
(* contain no await and take no lock.                                      *)
(***************************************************************************)
MaxMgrCalls == 4

outsideMgr == <<botVars, runRest, cmdVars, ipcVars>>

\* a call of start, stop or restart reaches "async with self._lock"
NewCall(op) ==
    [op |-> op, phase |-> IF op = "start" THEN "start" ELSE "stop",
     pc |-> "lock", ok |-> FALSE]

Invoke(op) ==
    /\ Len(mgr_calls) < MaxMgrCalls
    /\ mgr_calls' = Append(mgr_calls, NewCall(op))
    /\ mgr_lock' = Append(mgr_lock, Len(mgr_calls) + 1)
    /\ UNCHANGED <<is_running, is_paused, bot, bot_task, bot_tasks, bot_is_paused,
                   paused_at, stop_event, outsideMgr>>

\* call k is inside "async with self._lock"
Holder(k) == mgr_lock # <<>> /\ Head(mgr_lock) = k

\* start() or stop() of call k returns ok and leaves the lock; restart goes
\* on from stop() to start()
CallsAfterReturn(k, ok) ==
    IF mgr_calls[k].op = "restart" /\ mgr_calls[k].phase = "stop"
    THEN [mgr_calls EXCEPT ![k] = [@ EXCEPT !.phase = "start", !.pc = "lock", !.ok = ok]]
    ELSE [mgr_calls EXCEPT ![k] = [@ EXCEPT !.pc = "returned", !.ok = ok]]

LockAfterReturn(k) ==
    IF mgr_calls[k].op = "restart" /\ mgr_calls[k].phase = "stop"
    THEN Append(Tail(mgr_lock), k)
    ELSE Tail(mgr_lock)

\* mutation: start() does not look at is_running
AlreadyRunning_mut(flag) == FALSE

\* "if self.is_running: return failure" of start()
AlreadyRunning(flag) == flag

\* start(): the body under the lock has no await.  constructed is false when
\* creating the WeChatBot raises.
Start(k, constructed) ==
    /\ k \in DOMAIN mgr_calls
    /\ Holder(k)
    /\ mgr_calls[k].pc = "lock" /\ mgr_calls[k].phase = "start"
    /\ IF AlreadyRunning(is_running)
       THEN /\ constructed
            /\ mgr_calls' = CallsAfterReturn(k, FALSE)
            /\ UNCHANGED <<is_running, is_paused, bot, bot_task, bot_tasks,
                           bot_is_paused, stop_event>>
       ELSE /\ stop_event' = FALSE
            /\ IF constructed
               THEN LET t == Len(bot_tasks) + 1 IN
                    /\ bot_tasks' = Append(bot_tasks, "running")
                    /\ bot_is_paused' = Append(bot_is_paused, FALSE)
                    /\ bot' = t
                    /\ bot_task' = t
                    /\ is_running' = TRUE
                    /\ is_paused' = FALSE
                    /\ mgr_calls' = CallsAfterReturn(k, TRUE)
               ELSE /\ is_running' = FALSE
                    /\ bot' = 0
                    /\ bot_task' = 0
                    /\ mgr_calls' = CallsAfterReturn(k, FALSE)
                    /\ UNCHANGED <<is_paused, bot_tasks, bot_is_paused>>
    /\ mgr_lock' = LockAfterReturn(k)
    /\ UNCHANGED <<paused_at, outsideMgr>>

\* the _run_bot task is still running
TaskPending == bot_task # 0 /\ bot_tasks[bot_task] # "finished"

\* stop() up to "await asyncio.wait_for(self.task, timeout=5.0)"
StopBegin(k) ==
    /\ k \in DOMAIN mgr_calls
    /\ Holder(k)
    /\ mgr_calls[k].pc = "lock" /\ mgr_calls[k].phase = "stop"
    /\ IF ~is_running
       THEN /\ mgr_calls' = CallsAfterReturn(k, FALSE)
            /\ mgr_lock' = LockAfterReturn(k)
            /\ UNCHANGED stop_event
       ELSE /\ stop_event' = TRUE
            /\ mgr_calls' = [mgr_calls EXCEPT ![k].pc =
                                IF TaskPending THEN "wait_for" ELSE "shutdown"]
            /\ UNCHANGED mgr_lock
    /\ UNCHANGED <<is_running, is_paused, bot, bot_task, bot_tasks, bot_is_paused,
                   paused_at, outsideMgr>>

\* the finally block of _run_bot
RunBotFinally(t) ==
    /\ bot_tasks' = [bot_tasks EXCEPT ![t] = "finished"]
    /\ is_running' = FALSE

\* wait_for returns: the task has ended, or the timeout cancels it
\* (_run_bot catches CancelledError and runs its finally block)
StopWaited(k, how) ==
    /\ k \in DOMAIN mgr_calls
    /\ mgr_calls[k].pc = "wait_for"
    /\ IF TaskPending
       THEN how = "timeout" /\ RunBotFinally(bot_task)
       ELSE how = "finished" /\ UNCHANGED <<bot_tasks, is_running>>
    /\ mgr_calls' = [mgr_calls EXCEPT ![k].pc = "shutdown"]
    /\ UNCHANGED <<is_paused, bot, bot_task, mgr_lock, bot_is_paused, paused_at,
                   stop_event, outsideMgr>>

\* "await self.bot.shutdown()" and the rest of stop(); an exception of
\* shutdown() is caught and stop() returns failure
StopShutdown(k, raises) ==
    /\ k \in DOMAIN mgr_calls
    /\ mgr_calls[k].pc = "shutdown"
    /\ raises => bot # 0
    /\ IF raises
       THEN /\ mgr_calls' = CallsAfterReturn(k, FALSE)
            /\ UNCHANGED <<is_running, is_paused, bot, bot_task>>
       ELSE /\ bot' = 0
            /\ bot_task' = 0
            /\ is_running' = FALSE
            /\ is_paused' = FALSE
            /\ mgr_calls' = CallsAfterReturn(k, TRUE)
    /\ mgr_lock' = LockAfterReturn(k)
    /\ UNCHANGED <<bot_tasks, bot_is_paused, paused_at, stop_event, outsideMgr>>

\* bot.run() ends by itself (initialize failed, the stop event was seen, or
\* an exception left it): _run_bot runs its finally block
BotExit(t) ==
    /\ t \in DOMAIN bot_tasks
    /\ bot_tasks[t] = "running"
    /\ RunBotFinally(t)
    /\ UNCHANGED <<is_paused, bot, bot_task, mgr_lock, mgr_calls, bot_is_paused,
                   paused_at, stop_event, outsideMgr>>

\* pause(): BotManager.is_paused and WeChatBot._is_paused are set
Pause ==
    /\ Len(mgr_calls) < MaxMgrCalls
    /\ LET ok == is_running /\ ~is_paused IN
       /\ mgr_calls' = Append(mgr_calls,
             [op |-> "pause", phase |-> "pause", pc |-> "returned", ok |-> ok])
       /\ is_paused' = (is_paused \/ ok)
       /\ bot_is_paused' = IF ok /\ bot # 0
                           THEN [bot_is_paused EXCEPT ![bot] = TRUE]
                           ELSE bot_is_paused
       /\ paused_at' = IF ok THEN nextReq - 1 ELSE paused_at
    /\ UNCHANGED <<is_running, bot, bot_task, mgr_lock, bot_tasks, stop_event,
                   outsideMgr>>

\* resume()
Resume ==
    /\ Len(mgr_calls) < MaxMgrCalls
    /\ LET ok == is_running /\ is_paused IN
       /\ mgr_calls' = Append(mgr_calls,
             [op |-> "resume", phase |-> "resume", pc |-> "returned", ok |-> ok])
       /\ is_paused' = (is_paused /\ ~ok)
       /\ bot_is_paused' = IF ok /\ bot # 0
                           THEN [bot_is_paused EXCEPT ![bot] = FALSE]
                           ELSE bot_is_paused
    /\ UNCHANGED <<is_running, bot, bot_task, mgr_lock, bot_tasks, paused_at,
                   stop_event, outsideMgr>>

InitManager ==
    /\ now = 0
    /\ PipeInit(0, 0, DefaultMaxConcurrency)
    /\ MergeInit(0) /\ NoCall /\ GuiInit /\ CtlInit

NextManager ==
    \/ \E op \in {"start", "stop", "restart"} : Invoke(op)
    \/ \E k \in 1..MaxMgrCalls : \E constructed \in BOOLEAN : Start(k, constructed)
    \/ \E k \in 1..MaxMgrCalls : StopBegin(k)
    \/ \E k \in 1..MaxMgrCalls : \E how \in {"finished", "timeout"} : StopWaited(k, how)
    \/ \E k \in 1..MaxMgrCalls : \E raises \in BOOLEAN : StopShutdown(k, raises)
    \/ \E t \in 1..MaxMgrCalls : BotExit(t)
    \/ Pause
    \/ Resume

SpecManager == InitManager /\ [][NextManager]_vars

(***************************************************************************)
(* SpecPause: a bot started by BotManager handles inbound events while     *)
(* pause() and resume() are called.  handle_event consults                 *)
(* should_respond(bot_cfg), i.e. the state of the control commands, which  *)
(* no call of BotManager changes.                                          *)
(***************************************************************************)
InitPause ==
    /\ now = 0
    /\ PipeInit(0, 0, DefaultMaxConcurrency)
    /\ MergeInit(0) /\ NoCall /\ GuiInit /\ CtlInit

NextPause ==
    \/ Invoke("start")
    \/ \E k \in 1..MaxMgrCalls : Start(k, TRUE)
    \/ Pause
    \/ Resume
    \/ \E t \in 1..MaxMgrCalls : BotExit(t)
    \/ \E c \in NextChats({ chatOf[r] : r \in 1..(nextReq - 1) }) :
          /\ nextReq <= MaxTasks
          /\ \E t \in DOMAIN bot_tasks : bot_tasks[t] = "running"
          /\ HandleEvent(c)
    \/ \E r \in Reqs : GenerateReply(r)
    \/ \E r \in Reqs : LockWake(r)
    \/ \E r \in Reqs : \E resp \in CancelResponses(r) : TransportReturn(r, resp)
    \/ \E r \in Reqs : Finish(r)

SpecPause == InitPause /\ [][NextPause]_vars

(***************************************************************************)
(* SpecControl: the control commands of bot_control, as handle_event       *)
(* applies them.  Every inbound event first goes through the command check *)
(* and the response check; only an event that passes both reaches          *)
(* generate_reply.                                                         *)
(***************************************************************************)


\* event.sender: a listed user, an unlisted user, and the empty string that
\* normalize_message_item produces when neither the item nor the chat has a name
Senders == {"boss", "guest", ""}

\* bot_cfg["control_allowed_users"]
AllowedLists == {{}, {"boss"}}

\* event.content after strip(): whether it starts with the command prefix,
\* the first word after the prefix as typed, and the words after it
CommandTexts ==
    { [starts |-> TRUE, name |-> "pause", args |-> <<>>],
      [starts |-> TRUE, name |-> "PAUSE", args |-> <<"lunch">>],
      [starts |-> TRUE, name |-> "resume", args |-> <<>>],
      [starts |-> TRUE, name |-> "status", args |-> <<>>],
      [starts |-> TRUE, name |-> "dance", args |-> <<>>],
      [starts |-> FALSE, name |-> "hello", args |-> <<>>] }

\* str.lower() on the command names in use
Lower(w) == IF w = "PAUSE" THEN "pause" ELSE w

\* is_command_message(text, prefix)
IsCommandMessage(text) ==
    /\ text.starts
    /\ Lower(text.name) \in {"pause", "resume", "status", "help"}

ControlCommand(command, is_valid, response, should_reply) ==
    [command |-> command, is_valid |-> is_valid, response |-> response,
     should_reply |-> should_reply]

\* the permission check of parse_control_command: it applies only when both
\* the list and the sender are non-empty
Denied(allowed_users, who) == allowed_users # {} /\ who # "" /\ who \notin allowed_users

\* parse_control_command(text, prefix, allowed_users, sender) on BotState st
\* at time t: the ControlCommand it returns (None for no command) and the
\* BotState it leaves
ParseControlCommand(text, allowed_users, who, st, t) ==
    LET command == Lower(text.name)
        same(response) == [cmd |-> ControlCommand(command, TRUE, response, TRUE), state |-> st]
    IN  IF ~text.starts \/ text.name = "" THEN [cmd |-> None, state |-> st]
        ELSE IF Denied(allowed_users, who)
             THEN [cmd |-> ControlCommand(command, FALSE, "", FALSE), state |-> st]
        ELSE IF command = "pause"
             THEN IF st.is_paused THEN same("already paused")
                  ELSE [cmd |-> ControlCommand(command, TRUE, "paused", TRUE),
                        state |-> [is_paused |-> TRUE, pause_time |-> t,
                                   pause_reason |-> IF text.args # <<>> THEN text.args[1]
                                                    ELSE "manual"]]
        ELSE IF command = "resume"
             THEN IF ~st.is_paused THEN same("already running")
                  ELSE [cmd |-> ControlCommand(command, TRUE, "resumed", TRUE),
                        state |-> [is_paused |-> FALSE, pause_time |-> NoTs,
                                   pause_reason |-> ""]]
        ELSE IF command \in {"status", "help"} THEN same(command)
        ELSE [cmd |-> None, state |-> st]

ShouldRespond_mut(st) == TRUE

\* should_respond(bot_cfg), quiet hours disabled
ShouldRespond(st) == ~st.is_paused

\* handle_event, steps 2 and 3, for execution r whose event has this sender
\* and content: _handle_control_command (with the command reply it sends),
\* then should_respond.  There is no suspension between the two checks for
\* an event that is not an executed command.  An executed command and a
\* refused event end handle_event, which leaves "async with self.sem".
HandleControlCommand(r, who, text) ==
    /\ pc[r] = "admitted"
    /\ gate[r] = "none"
    /\ LET parsed == IF IsCommandMessage(text)
                     THEN ParseControlCommand(text, control_allowed_users, who, bot_state, now)
                     ELSE [cmd |-> None, state |-> bot_state]
           executed == parsed.cmd # None /\ parsed.cmd.should_reply
           ends == executed \/ ~ShouldRespond(parsed.state)
       IN  /\ bot_state' = parsed.state
           /\ last_event' = [sender |-> who, content |-> text]
           /\ command_replies' =
                 IF executed THEN Append(command_replies, [req |-> r, response |-> parsed.cmd.response])
                 ELSE command_replies
           /\ gate' = [gate EXCEPT ![r] = IF executed THEN "command"
                                          ELSE IF ends THEN "refused" ELSE "passed"]
           /\ pc' = IF ends THEN [pc EXCEPT ![r] = "done"] ELSE pc
           /\ semValue' = IF ends THEN [semValue EXCEPT ![semOf[r]] = @ + 1] ELSE semValue
    /\ UNCHANGED <<mergeVars, cfgVars, fnVars, guiVars, runVars, mgrVars, ipcVars, streamVars,
                   control_allowed_users>>
    /\ UNCHANGED <<now, max_retries, history_ttl_sec, max_concurrency, histories, history_timestamps, chat_locks,
                   lockOwner, lockWaiters, nextLock, sem, reloads, nextReq,
                   chatOf, semOf, lockOf, attempt, posts, fails, snapshot,
                   result, lateCall>>

\* handle_event, step 5: _process_and_reply for an event that passed the checks
ProcessAndReply(r) == gate[r] = "passed" /\ GenerateReply(r)

InitControl ==
    /\ now = 0
    /\ PipeInit(0, 0, DefaultMaxConcurrency)
    /\ MergeInit(0) /\ NoCall /\ GuiInit /\ NoRun /\ MgrInit /\ IpcInit
    /\ \E allowed \in AllowedLists : ControlInit(allowed)

NextControl ==
    \/ HandleEvent(1)
    \/ \E r \in Reqs, who \in Senders, text \in CommandTexts : HandleControlCommand(r, who, text)
    \/ \E r \in Reqs : ProcessAndReply(r)
    \/ \E r \in Reqs : LockWake(r)
    \/ \E r \in Reqs : \E resp \in CancelResponses(r) : TransportReturn(r, resp)
    \/ \E r \in Reqs : Finish(r)
    \/ Tick

SpecControl == InitControl /\ [][NextControl]_vars

(***************************************************************************)
(* SpecIpc: the command file of IPCManager.  The web application's request *)
(* threads call send_command, the bot's run loop calls get_commands; both  *)
(* read and rewrite data/commands.json without a lock.  Each read and each *)
(* write of the file is one step.                                          *)
(***************************************************************************)

outsideIpc == <<botVars, runVars, mgrVars, cmdVars>>

\* send_command, lines 26-45: the command gets a fresh id, the file's list
\* is read (an absent file reads as the empty list) and the command is
\* appended to the local list
SendRead(w) ==
    /\ send_pc[w] = "idle"
    /\ nextCmd <= MaxCmds
    /\ send_commands' = [send_commands EXCEPT ![w] = Append(cmd_file, nextCmd)]
    /\ nextCmd' = nextCmd + 1
    /\ send_pc' = [send_pc EXCEPT ![w] = "write"]
    /\ UNCHANGED <<cmd_file, get_pc, get_commands, cmd_sent, cmd_got, outsideIpc>>

\* send_command, lines 47-49: the local list replaces the file's content
\* and the id is returned
SendWrite(w) ==
    /\ send_pc[w] = "write"
    /\ cmd_file' = send_commands[w]
    /\ cmd_sent' = cmd_sent \cup {send_commands[w][Len(send_commands[w])]}
    /\ send_pc' = [send_pc EXCEPT ![w] = "idle"]
    /\ send_commands' = [send_commands EXCEPT ![w] = <<>>]
    /\ UNCHANGED <<get_pc, get_commands, nextCmd, cmd_got, outsideIpc>>

\* get_commands, lines 56-66: the file's list is read; an empty list is
\* returned at once
GetRead ==
    /\ get_pc = "idle"
    /\ cmd_file # <<>>
    /\ get_commands' = cmd_file
    /\ get_pc' = "clear"
    /\ UNCHANGED <<cmd_file, send_pc, send_commands, nextCmd, cmd_sent, cmd_got, outsideIpc>>

\* get_commands, lines 69-72: the empty list replaces the file's content
\* and the list that was read is returned
GetClear ==
    /\ get_pc = "clear"
    /\ cmd_file' = <<>>
    /\ cmd_got' = cmd_got \o get_commands
    /\ get_pc' = "idle"
    /\ get_commands' = <<>>
    /\ UNCHANGED <<send_pc, send_commands, nextCmd, cmd_sent, outsideIpc>>

InitIpc ==
    /\ now = 0
    /\ PipeInit(0, 0, DefaultMaxConcurrency)
    /\ MergeInit(0) /\ NoCall /\ GuiInit /\ CtlInit

NextIpc ==
    \/ \E w \in WebCallers : SendRead(w)
    \/ \E w \in WebCallers : SendWrite(w)
    \/ GetRead
    \/ GetClear

SpecIpc == InitIpc /\ [][NextIpc]_vars

(***************************************************************************)
(* Properties of the pipeline                                              *)
(***************************************************************************)
\* C1: for every conversation id at most one execution is inside the locked
\* body of generate_reply (build request, transport attempts, history commit)
\* at any time, also when _prune_histories runs while a request is in flight.
C1_OneInFlightPerChat ==
    \A r, q \in Reqs :
        (r # q /\ InLock(r) /\ InLock(q)) => chatOf[r] # chatOf[q]

\* C2: the executions admitted by the limiter and not yet released, and hence
\* the transport calls in flight, never exceed max_concurrency.
C2_ConcurrencyCap ==
    /\ Cardinality({ r \in Reqs : Admitted(r) }) <= max_concurrency
    /\ Cardinality({ r \in Reqs : pc[r] = "transport" }) <= max_concurrency

\* execution r takes the conversation lock and reads the history in this step
Enters(r) == pc[r] \notin {"transport", "backoff"} /\ pc'[r] = "transport"

\* the turns of exchange r are the most recent turns of the sequence h
EndsWithPair(h, r) ==
    /\ Len(h) >= 2
    /\ h[Len(h) - 1] = Turn("user", UserText(r))
    /\ h[Len(h)] = Turn("assistant", ReplyText(r))

\* the entry of chat c is older than the TTL
Expired(c) ==
    /\ history_ttl_sec > 0
    /\ history_timestamps[c] # NoTs
    /\ history_timestamps[c] < now - history_ttl_sec

\* C7: exchanges of one conversation are strictly serialized: when exchange
\* N+1 reads the history, every earlier exchange of the conversation has left
\* the locked body, and the turns exchange N appended (still the latest of an
\* unexpired entry) are in what N+1 reads.
C7_Serialized ==
    [][\A r2 \in Reqs : Enters(r2) =>
         \A r \in Reqs \ {r2} : (pc[r] # "new" /\ chatOf[r] = chatOf'[r2]) =>
             /\ ~InLock(r)
             /\ (/\ result[r] # None
                 /\ EndsWithPair(TurnsOf(histories, chatOf[r]), r)
                 /\ ~Expired(chatOf[r]))
                    => EndsWithPair(snapshot'[r2], r)]_vars

\* a history made of whole (user, assistant) pairs, each reply after its own turn
WholePairs(h) ==
    /\ Len(h) % 2 = 0
    /\ \A i \in 1..Len(h) : i % 2 = 1 =>
          \E q \in Reqs : /\ h[i] = Turn("user", UserText(q))
                          /\ h[i + 1] = Turn("assistant", ReplyText(q))

\* execution r commits its exchange in this step
Commits(r) == pc[r] = "transport" /\ result'[r] # None

\* C8: N requests issued concurrently for one conversation (each call made
\* before any of them returned, no other conversation active), all successful,
\* leave the history with exactly min(2N, maxTurns) turns made of whole
\* (user, assistant) pairs.
C8_ConcurrentHistory ==
    [][\A r \in Reqs : Commits(r) =>
         LET c == chatOf[r]
             S == { q \in Reqs : pc'[q] # "new" }
         IN  (\A q \in S : /\ chatOf[q] = c
                            /\ pc'[q] \in {"replying", "done"}
                            /\ result'[q] # None
                            /\ ~lateCall[q])
             => /\ Len(TurnsOf(histories', c)) = Min(2 * Cardinality(S), MaxMessages)
                /\ WholePairs(TurnsOf(histories', c))]_vars

\* C9: pruning never removes the lock or the history entry of a conversation
\* whose lock is held: the holder's lock stays registered for its conversation
\* and the history it has read stays in the registry while it holds the lock.
C9_HeldNotEvicted ==
    \A r \in Reqs : InLock(r) =>
        /\ chat_locks[chatOf[r]] = lockOf[r]
        /\ (snapshot[r] # <<>> => chatOf[r] \in Keys(histories))

\* the call of execution r has returned
Returned(r) == pc[r] \in {"replying", "done"}

\* C10: generate_reply makes at most max_retries + 1 transport attempts, stops
\* at the first attempt with a non-empty reply and returns that reply: k
\* failures followed by a success are exactly k + 1 attempts.
C10_Attempts ==
    \A r \in Reqs :
        /\ posts[r] <= max_retries + 1
        /\ max_retries <= MAX_RETRIES
        /\ (Returned(r) /\ result[r] # None) =>
              /\ result[r] = ReplyText(r)
              /\ fails[r] <= max_retries
              /\ posts[r] = fails[r] + 1
        /\ (Returned(r) /\ result[r] = None) =>
              /\ fails[r] = max_retries + 1
              /\ posts[r] = max_retries + 1

\* a call that failed MAX_RETRIES times and then succeeded has returned
C10_Witness ==
    \E r \in Reqs : /\ Returned(r)
                    /\ result[r] = ReplyText(r)
                    /\ max_retries = MAX_RETRIES
                    /\ fails[r] = max_retries
                    /\ posts[r] = max_retries + 1

(***************************************************************************)
(* Properties of the coalescer                                             *)
(***************************************************************************)
\* inbound event m was accepted by the coalescer (appended to pending texts)
Accepted(m) == arrival[m].kind = "text"

\* the calls of handle_event made by timer tasks (merged turns)
MergedCalls == { i \in 1..Len(handled) : handled[i].by # NoTask }

\* message m is part of the text of call i
InCall(m, i) == \E k \in 1..Len(handled[i].text) : <<handled[i].text[k]>> = Content(m)

\* the accepted messages of call i
CallMsgs(i) == { m \in Msgs : Accepted(m) /\ InCall(m, i) }

\* message m is among the pending texts of its chat
IsPending(m) ==
    /\ Accepted(m)
    /\ \E k \in 1..Len(pending_merge_messages[arrival[m].chat]) :
          pending_merge_messages[arrival[m].chat][k] = Content(m)

\* the texts of the messages of the set S, one per line, in arrival order
RECURSIVE Lines(_)
Lines(S) ==
    IF S = {} THEN <<>>
    ELSE LET m == CHOOSE x \in S : \A y \in S : x <= y
         IN  IF S = {m} THEN Content(m) ELSE Content(m) \o <<NL>> \o Lines(S \ {m})

\* m2 is the accepted message that follows m1 in the same conversation
NextInChat(m1, m2) ==
    /\ Accepted(m1) /\ Accepted(m2) /\ m1 < m2
    /\ arrival[m1].chat = arrival[m2].chat
    /\ \A m \in Msgs : (m1 < m /\ m < m2 /\ Accepted(m)) => arrival[m].chat # arrival[m1].chat

\* the text of every merged turn is its messages joined with newline in
\* arrival order, and the messages of a turn are consecutive ones of its chat
JoinedInOrder ==
    \A i \in MergedCalls :
        /\ CallMsgs(i) # {}
        /\ handled[i].text = Lines(CallMsgs(i))
        /\ \A m \in CallMsgs(i) : arrival[m].chat = handled[i].chat
        /\ \A m1, m2 \in CallMsgs(i) : \A m \in Msgs :
              (m1 < m /\ m < m2 /\ Accepted(m) /\ arrival[m].chat = handled[i].chat)
                  => m \in CallMsgs(i)

Carried(m) == Cardinality({ i \in 1..Len(handled) : InCall(m, i) })

\* C4 as stated: every accepted message is handed to the pipeline in exactly
\* one merged turn; none is dropped (a message not yet handed over is pending
\* under a live timer) and none appears in two turns.
C4_ExactlyOnce ==
    \A m \in Msgs : Accepted(m) =>
        /\ Carried(m) + (IF IsPending(m) THEN 1 ELSE 0) = 1
        /\ IsPending(m) => /\ pending_merge_tasks[arrival[m].chat] # NoTask
                           /\ Live(pending_merge_tasks[arrival[m].chat])

C11_Backoff ==
    \A r \in Reqs :
        /\ \A i \in 1..Len(waits[r]) :
              /\ waits[r][i] * Pow(2, i - 1) = 600 * Pow(3, i - 1)
              /\ i > 1 => waits[r][i - 1] < waits[r][i]
        /\ Len(waits[r]) = (IF pc[r] = "backoff" THEN posts[r] ELSE Max(0, posts[r] - 1))
        /\ Returned(r) => Len(waits[r]) = posts[r] - 1

\* a call has waited twice (600 ms, then 900 ms) and has returned
C11_Witness ==
    \E r \in Reqs : Returned(r) /\ waits[r] = <<600, 900>> /\ posts[r] = 3

\* no stored turn carries the user text of execution r
NoTurnOf(r) ==
    \A i \in 1..Len(histories) : \A j \in 1..Len(histories[i].turns) :
        histories[i].turns[j].content # UserText(r)

\* the call of execution r ended without a reply: every attempt of a
\* synchronous call failed, or a streamed call yielded no fragment
TotalFailure(r) ==
    /\ Returned(r)
    /\ IF streaming[r] THEN yielded[r] = <<>> ELSE fails[r] = posts[r]

\* C12: a call whose attempts all fail (synchronous) or that yields no fragment
\* (streamed) returns None / an empty sequence, raises nothing, and appends no
\* turn to the history of its conversation.
C12_FailureByValue ==
    \A r \in Reqs :
        TotalFailure(r) =>
            /\ ~raised[r]
            /\ result[r] = None
            /\ appended[r] = None
            /\ NoTurnOf(r)
            /\ fails[r] = max_retries + 1

C12_Witness ==
    /\ \E r \in Reqs : TotalFailure(r) /\ streaming[r] /\ posts[r] = max_retries + 1
    /\ \E r \in Reqs : TotalFailure(r) /\ ~streaming[r] /\ posts[r] = max_retries + 1

\* the fragments execution r has yielded to its consumer, in order
Fragments(r) == [i \in 1..Len(yielded[r]) |-> yielded[r][i].chunk]

\* this step is the except block of a streamed attempt of r that had already
\* yielded a fragment
BreaksAfterFragment(r) ==
    /\ streaming[r]
    /\ pc[r] = "transport"
    /\ yielded[r] # <<>>
    /\ fails'[r] = fails[r] + 1

\* the history of r's conversation ends with r's user turn and the assistant
\* turn text
CommittedAs(h, r, text) ==
    LET t == TurnsOf(h, chatOf[r])
    IN  /\ Len(t) >= 2
        /\ t[Len(t) - 1] = Turn("user", UserText(r))
        /\ t[Len(t)] = Turn("assistant", text)

\* C13 as stated: a streamed exchange that breaks after a fragment was yielded
\* is not re-issued, ends, and commits the concatenation of the yielded
\* fragments as the assistant turn after the user turn.
C13_PartialCommit ==
    [][\A r \in Reqs :
          BreaksAfterFragment(r) =>
              /\ posts'[r] = posts[r]
              /\ pc'[r] \in {"replying", "done"}
              /\ CommittedAs(histories', r, Concat(Fragments(r)))]_vars

\* C13 amended: the assistant turn is the concatenation with leading and
\* trailing whitespace removed, and nothing is committed when that is empty.
C13_PartialCommitStripped ==
    [][\A r \in Reqs :
          BreaksAfterFragment(r) =>
              /\ posts'[r] = posts[r]
              /\ pc'[r] \in {"replying", "done"}
              /\ yielded'[r] = yielded[r]
              /\ IF Strip(Concat(Fragments(r))) # <<>>
                 THEN CommittedAs(histories', r, Strip(Concat(Fragments(r))))
                 ELSE histories' = histories /\ appended'[r] = None]_vars

C13_Witness ==
    \E r \in Reqs :
        /\ streaming[r] /\ pc[r] = "done" /\ fails[r] = 1 /\ posts[r] = 1
        /\ Len(yielded[r]) = 2
        /\ Concat(Fragments(r)) # Strip(Concat(Fragments(r)))
        /\ CommittedAs(histories, r, Strip(Concat(Fragments(r))))

\* this step is the except block of a streamed attempt of r that had not
\* yielded any fragment
FailsBeforeFragment(r) ==
    /\ streaming[r]
    /\ pc[r] = "transport"
    /\ yielded[r] = <<>>
    /\ fails'[r] = fails[r] + 1

\* C14: a streamed attempt that fails before any fragment was yielded is
\* retried after a wait of 0.6 x 1.5^attempt seconds unless it was attempt
\* number max_retries + 1; a call never makes more than max_retries + 1
\* attempts; all fragments a call has yielded come from one attempt.
C14_RetryBeforeFragment ==
    [][\A r \in Reqs :
          /\ FailsBeforeFragment(r) =>
                IF posts[r] < max_retries + 1
                THEN /\ pc'[r] = "backoff"
                     /\ Len(waits'[r]) = posts[r]
                     /\ waits'[r][posts[r]] * Pow(2, posts[r] - 1)
                            = 600 * Pow(3, posts[r] - 1)
                ELSE /\ pc'[r] \in {"replying", "done"}
                     /\ waits'[r] = waits[r]
          /\ streaming'[r] => posts'[r] <= max_retries + 1
          /\ \A i, j \in 1..Len(yielded'[r]) :
                yielded'[r][i].attempt = yielded'[r][j].attempt]_vars

C14_Witness ==
    \E r \in Reqs :
        /\ streaming[r] /\ pc[r] = "done"
        /\ posts[r] = 2 /\ fails[r] = 1 /\ waits[r] = <<600>>
        /\ Len(yielded[r]) = 2
        /\ \A i \in 1..2 : yielded[r][i].attempt = 1
        /\ appended[r] # None

\* the outcomes of one transport attempt that the contract calls failures
BadOutcome(resp) ==
    \/ resp.exc
    \/ resp.status \notin 200..299
    \/ ~resp.json
    \/ resp.error
    \/ \A i \in 1..Len(resp.content) : resp.content[i] = SP

\* C15: an attempt that ends in a transport error, a non-2xx status, a
\* non-JSON body, an error envelope or empty/whitespace-only content counts as
\* a failure: it yields no reply, appends nothing, and is retried while
\* attempts remain.
C15_FailuresNeverAccepted ==
    [][\A r \in Reqs : \A resp \in Responses(r) :
          (BadOutcome(resp) /\ TransportReturn(r, resp)) =>
              /\ fails'[r] = fails[r] + 1
              /\ result'[r] = None
              /\ appended'[r] = None
              /\ posts[r] < max_retries + 1 => pc'[r] = "backoff"]_vars

\* the task of execution r has ended, normally or by an exception
Ended(r) == pc[r] \in {"done", "cancelled"}

C17_YieldedCommitted ==
    \A r \in Reqs :
        (streaming[r] /\ pc[r] = "done" /\ Strip(Concat(Fragments(r))) # <<>>) =>
            appended[r] = Strip(Concat(Fragments(r)))

\* this step changes the registry (every such step ends in _prune_histories)
Mutates == histories' # histories \/ history_timestamps' # history_timestamps

\* chat c has been neither read nor appended for longer than history_ttl_sec
Stale(c) ==
    /\ history_ttl_sec > 0
    /\ history_timestamps[c] # NoTs
    /\ now - history_timestamps[c] > history_ttl_sec

\* this step removes the history of chat c although it is not stale
EvictedByBound(c) ==
    /\ c \in Keys(histories)
    /\ c \notin Keys(histories')
    /\ ~Stale(c)

\* C18: after every operation that changes the registry it holds at most
\* history_max_chats conversations; a conversation evicted because of the
\* bound was touched no later than every conversation that stays; the
\* conversation an operation appends to stays.
C18_BoundedLRU ==
    [][Mutates =>
          /\ Len(histories') <= history_max_chats
          /\ \A c \in Chats : EvictedByBound(c) =>
                \A d \in Keys(histories') :
                    history_timestamps[c] <= history_timestamps'[d]
          /\ \A r \in Reqs : appended'[r] # appended[r] =>
                chatOf[r] \in Keys(histories')]_vars

\* two conversations are stored, the older one was touched again, and the
\* append of a third conversation has evicted the other one
C18_Witness ==
    /\ history_max_chats = 2
    /\ Len(histories) = 2
    /\ histories[1].id = 1
    /\ histories[2].id = 3
    /\ history_timestamps[1] > 0
    /\ history_ttl_sec > 0 /\ now - 0 <= history_ttl_sec
    /\ \E r \in Reqs : chatOf[r] = 3 /\ appended[r] # None

\* execution r takes the lock in this step: _build_messages runs
EntersLock(r) == pc[r] \in {"new", "admitted", "lockwait"} /\ pc'[r] = "transport"

\* this step is an operation that runs _prune_histories
Sweeps ==
    \/ Mutates
    \/ \E r \in Reqs : EntersLock(r)
    \/ \E r \in Reqs : appended'[r] # appended[r]

\* the turns stored for chat c before this step
OldTurnsOf(c) == { TurnsOf(histories, c)[j] : j \in 1..Len(TurnsOf(histories, c)) }

\* C19: after an operation that triggers a sweep, no turn of a conversation
\* that had been idle for longer than history_ttl_sec is left in the registry,
\* and the request built by that operation contains none of them.
C19_StaleSwept ==
    [][Sweeps =>
          \A c \in Chats : Stale(c) =>
              /\ \A j \in 1..Len(TurnsOf(histories', c)) :
                    TurnsOf(histories', c)[j] \notin OldTurnsOf(c)
              /\ \A r \in Reqs : EntersLock(r) =>
                    \A j \in 1..Len(snapshot'[r]) : snapshot'[r][j] \notin OldTurnsOf(c)]_vars

\* s is what is left of t after dropping turns from its front
IsSuffix(s, t) ==
    /\ Len(s) <= Len(t)
    /\ \A j \in 1..Len(s) : s[j] = t[Len(t) - Len(s) + j]

\* C20: every stored history holds at most 2 x context_rounds turns, and an
\* append leaves the most recent turns, in order, the new exchange last.
C20_TurnsBounded ==
    [][/\ \A i \in 1..Len(histories') :
             Len(histories'[i].turns) <= 2 * context_rounds'
       /\ \A r \in Reqs : appended'[r] # appended[r] =>
             IsSuffix(TurnsOf(histories', chatOf[r]),
                      TurnsOf(histories, chatOf[r])
                          \o <<Turn("user", UserText(r)), Turn("assistant", appended'[r])>>)]_vars

(***************************************************************************)
(* Properties of the token budget                                          *)
(***************************************************************************)
\* the k-th application of the trimmer has returned
Trimmed(k) == fn = "_trim_history_by_tokens" /\ k \in DOMAIN ret

\* the last k turns of the list h, in their order
Suffix(h, k) == SubSeq(h, Len(h) - k + 1, Len(h))

\* the result is the most recent turn alone and that turn costs more than b
LastAloneOver(h, out, b) ==
    /\ h # <<>>
    /\ out = <<h[Len(h)]>>
    /\ EstimateMessageTokens(h[Len(h)]) > b

\* C21 as stated: for every list of turns and every budget, the summed
\* estimated cost of the trimmer's result is at most the budget, except when
\* the result is the single most recent turn and that turn alone costs more
\* than the budget.
C21_WithinAnyBudget ==
    \A k \in 1..MaxApply :
        Trimmed(k) =>
            \/ EstimateMessagesTokens(ret[k]) <= args.max_tokens
            \/ LastAloneOver(TrimInput(k), ret[k], args.max_tokens)

\* C21: for every list of turns and every budget >= 0, the summed estimated
\* cost of the trimmer's result is at most the budget, except when the
\* result is the single most recent turn and that turn alone costs more than
\* the budget; for a budget < 0 the result is empty (its cost, 0, is above
\* the budget).
C21_WithinBudget ==
    \A k \in 1..MaxApply :
        Trimmed(k) =>
            IF args.max_tokens < 0 THEN ret[k] = <<>>
            ELSE \/ EstimateMessagesTokens(ret[k]) <= args.max_tokens
                 \/ LastAloneOver(TrimInput(k), ret[k], args.max_tokens)

\* turns were dropped and more than one turn is kept within the budget
C21_Witness ==
    /\ Trimmed(1)
    /\ Len(ret[1]) >= 2
    /\ Len(ret[1]) < Len(args.history)
    /\ EstimateMessagesTokens(ret[1]) <= args.max_tokens

\* the numbers of most recent turns of h that fit the budget b together
Fitting(h, b) == { k \in 1..Len(h) : EstimateMessagesTokens(Suffix(h, k)) <= b }

\* what the specification says the trimmer returns for the list h and budget b
LongestFit(h, b) ==
    IF h = <<>> \/ b <= 0 THEN <<>>
    ELSE IF Fitting(h, b) = {} THEN <<h[Len(h)]>>
    ELSE Suffix(h, CHOOSE k \in Fitting(h, b) : \A j \in Fitting(h, b) : j <= k)

\* C22: the trimmer returns the empty list when the list is empty or the
\* budget is <= 0; otherwise the longest suffix of the list, in its order,
\* whose summed cost is <= the budget, or the single last turn when that
\* turn alone exceeds the budget; so at least one turn whenever the budget
\* is > 0 and the list is non-empty.
C22_LongestSuffix ==
    \A k \in 1..MaxApply :
        Trimmed(k) =>
            /\ ret[k] = LongestFit(TrimInput(k), args.max_tokens)
            /\ (args.max_tokens > 0 /\ TrimInput(k) # <<>>) => ret[k] # <<>>

\* the last turn alone exceeds a positive budget and is returned alone
C22_Witness ==
    /\ Trimmed(1)
    /\ args.max_tokens > 0
    /\ Len(args.history) >= 2
    /\ LastAloneOver(args.history, ret[1], args.max_tokens)

\* C23: trimming is idempotent: trimming the trimmer's result again with the
\* same budget returns that result.
C23_Idempotent ==
    \A k \in 2..MaxApply : Trimmed(k) => ret[k] = ret[k - 1]

\* a list that lost turns in the first trimming has been trimmed again
C23_Witness ==
    /\ Trimmed(2)
    /\ Len(ret[1]) >= 2
    /\ Len(ret[1]) < Len(args.history)

\* _build_messages has returned the request
Built == fn = "_build_messages" /\ ret # <<>>

\* a request in the order of the specification: prompt, memory under its
\* header, history, new user turn
Request(prompt, memory, history, user_text) ==
    (IF prompt # <<>> THEN <<Turn("system", prompt)>> ELSE <<>>)
    \o (IF memory # <<>> THEN <<MemoryHeader>> \o memory ELSE <<>>)
    \o history
    \o <<Turn("user", user_text)>>

\* the request the priority order gives when the token limit is limit: the
\* memory (with its header) gets what the prompt and the user turn leave,
\* the history what the kept memory leaves
Allotted(a, limit) ==
    LET prompt == Prompt(a.own_prompt, a.system_prompt)
        cleaned == NormalizeMemoryContext(a.memory_context)
        budget == BaseBudget(limit, prompt, a.user_text)
        memory == IF cleaned = <<>> THEN <<>>
                  ELSE LongestFit(cleaned,
                                  Max(0, budget - EstimateMessageTokens(MemoryHeader)))
        used == IF memory = <<>> THEN 0
                ELSE EstimateMessageTokens(MemoryHeader) + EstimateMessagesTokens(memory)
    IN  Request(prompt, memory, LongestFit(a.history, Max(0, budget - used)), a.user_text)

\* C24: when context_max_tokens is set, the prompt and the new user turn are
\* charged first (the remainder clamped at 0), the injected memory is trimmed
\* to that remainder and the history to what the kept memory leaves; a
\* remainder of 0 gives a request with no memory and no history; when
\* context_max_tokens is unset nothing is trimmed.
C24_PriorityOrder ==
    Built =>
        LET prompt == Prompt(args.own_prompt, args.system_prompt)
        IN  IF args.context_max_tokens = Unset
            THEN ret[1] = Request(prompt, NormalizeMemoryContext(args.memory_context),
                                  args.history, args.user_text)
            ELSE /\ ret[1] = Allotted(args, args.context_max_tokens)
                 /\ BaseBudget(args.context_max_tokens, prompt, args.user_text) = 0
                        => ret[1] = Request(prompt, <<>>, <<>>, args.user_text)

\* the suffixes of the list h, the empty one and h itself included
Suffixes(h) == { Suffix(h, k) : k \in 0..Len(h) }

\* C25: every request built by _build_messages is, in this order: the system
\* prompt (if any), the memory header followed by the kept memory turns (the
\* header present exactly when at least one memory turn is kept), the kept
\* history in its original order, and last the new user turn, which is
\* never trimmed away.
C25_MessageOrder ==
    Built =>
        /\ ret[1][Len(ret[1])] = Turn("user", args.user_text)
        /\ \E memory \in Suffixes(NormalizeMemoryContext(args.memory_context)) :
              \E history \in Suffixes(args.history) :
                  ret[1] = Request(Prompt(args.own_prompt, args.system_prompt),
                                   memory, history, args.user_text)

\* a request under a token limit that lost turns and still carries a prompt,
\* the header with a memory turn, a history turn and the user turn
C25_Witness ==
    /\ Built
    /\ Limited(args.context_max_tokens)
    /\ Len(ret[1]) >= 5
    /\ ret[1][1].role = "system"
    /\ ret[1][2] = MemoryHeader
    /\ ret[1][Len(ret[1]) - 1] \in { args.history[i] : i \in DOMAIN args.history }
    /\ Len(ret[1]) < 3 + Len(NormalizeMemoryContext(args.memory_context)) + Len(args.history)

(***************************************************************************)
(* Properties of the coalescer and the locks                               *)
(***************************************************************************)
\* schedule_merged_reply is given a voice message in this step
VoiceStep == nextMsg' = nextMsg + 1 /\ arrival'[nextMsg].kind = "voice"

\* C26: a voice message given to schedule_merged_reply is dispatched to
\* handle_event at once as its own turn and leaves the pending-merge state
\* unchanged: nothing is appended to the pending texts and the running
\* debounce timer is neither cancelled nor restarted.
C26_VoiceFrame ==
    [][VoiceStep =>
          /\ handled' = Append(handled,
                 Call(arrival'[nextMsg].chat, Content(nextMsg), nextMsg, nextMsg, NoTask, now))
          /\ UNCHANGED <<pending_merge_messages, pending_merge_events,
                         pending_merge_first_event, pending_merge_first_ts,
                         pending_merge_tasks, tasks, nextTask>>]_vars

\* a voice message has just been handled on its own while texts of its chat
\* are pending under a live timer
C26_Witness ==
    \E i \in DOMAIN handled :
        LET c == handled[i].chat
        IN  /\ handled[i].by = NoTask
            /\ arrival[handled[i].event].kind = "voice"
            /\ handled[i].at = now
            /\ pending_merge_messages[c] # <<>>
            /\ pending_merge_first_event[c] < handled[i].event
            /\ pending_merge_tasks[c] # NoTask
            /\ Live(pending_merge_tasks[c])

\* execution r has ended and holds nothing: no conversation lock, not the GUI
\* lock, no place in a queue, and its limiter slot is free again
Released(r) ==
    /\ pc[r] = "done"
    /\ \A l \in LockIds :
          lockOwner[l] # r /\ (\A i \in 1..Len(lockWaiters[l]) : lockWaiters[l][i] # r)
    /\ wx_lock # r
    /\ \A i \in 1..Len(wx_waiters) : wx_waiters[i] # r
    /\ semValue[semOf[r]] + Cardinality({ q \in Reqs : semOf[q] = semOf[r] /\ Admitted(q) })
          = max_concurrency

\* C27: the limiter, the conversation lock and the GUI lock are never taken
\* in an order that can deadlock: when every transport and GUI call returns,
\* every admitted execution eventually finishes and has released everything
\* it held.
C27_AdmittedFinishes == \A r \in 1..MaxTasks : Admitted(r) ~> Released(r)

\* an execution waits for the GUI lock while it holds a limiter slot and its
\* conversation lock, and the GUI lock is held by another execution
C27_Witness ==
    \E r, q \in Reqs :
        /\ r # q
        /\ sending[r] = "wait"
        /\ pc[r] = "yielded"
        /\ lockOwner[lockOf[r]] = r
        /\ wx_lock = q

\* the transport calls in flight
InFlight == { q \in Reqs : pc[q] = "transport" }

\* execution r waits for a limiter slot that execution q holds while q is
\* queued on the lock of another conversation
WaitsBehindQueue(r, q) ==
    /\ pc[r] = "semwait"
    /\ pc[q] = "lockwait"
    /\ semOf[q] = semOf[r]
    /\ chatOf[q] # chatOf[r]

\* C28: requests of different conversations run in parallel up to the global
\* cap: a request of conversation B is never made to wait because of
\* requests queued on the lock of conversation A; B's execution can start
\* its transport call whenever fewer than max_concurrency transport calls
\* are in flight.
C28_NoCrossChatWait ==
    \A r, q \in Reqs :
        WaitsBehindQueue(r, q) => Cardinality(InFlight) >= max_concurrency

(***************************************************************************)
(* Properties of the senders                                               *)
(***************************************************************************)
\* C29: for a send result that has an is_success attribute,
\* parse_send_result returns ok equal to that flag, together with the
\* object's message, also when the object itself is truthy.
C29_UsesIsSuccess ==
    (fn = "parse_send_result" /\ ret # <<>> /\ args.result.kind = "object") =>
        /\ ret[1].ok = args.result.is_success
        /\ args.result.message = "done" => ret[1].message = "done"

\* the attempt with outcome o succeeds: quote() returns, and the result
\* reports success (its is_success flag when it has one)
Succeeds(o) ==
    /\ o.exc = "none"
    /\ IF o.result.kind = "object" THEN o.result.is_success
       ELSE ParseSendResult(o.result).ok

\* C30: send_quote_message makes at most two quote attempts: when the first
\* raises or reports failure it waits 0.3 s exactly once and retries; it
\* returns success as soon as an attempt succeeds and failure when both
\* attempts fail, and never raises.
C30_TwoAttempts ==
    (fn = "send_quote_message" /\ ret # <<>> /\ args.quote_item = "item") =>
        /\ ~ret[1].raised
        /\ ret[1].calls <= QuoteAttempts
        /\ IF Succeeds(args.outcomes[1])
           THEN ret[1].ok /\ ret[1].calls = 1 /\ ret[1].sleeps = <<>>
           ELSE /\ ret[1].calls = 2
                /\ ret[1].sleeps = <<QuoteRetryDelayMs>>
                /\ ret[1].ok = Succeeds(args.outcomes[2])

(***************************************************************************)
(* Properties of the run loop and the controllers around it.               *)
(***************************************************************************)

\* every task that was created has finished
AllTasksDone == \A t \in RunTaskIds : run_tasks[t].st = "done"

\* C31: once the stop event is set, run() leaves the polling loop at the
\* next loop test and runs shutdown; shutdown has cancelled and awaited every
\* pending task before it closes the AI client, closes the memory store
\* after it, and run() then returns.  When initialize() fails run() returns
\* without entering the loop.
C31_StopAndShutdown ==
    /\ [](/\ closed # <<>> => AllTasksDone
          /\ closed \in {<<>>, <<"ai_client">>, <<"ai_client", "memory">>}
          /\ (run_pc = "returned" /\ init_result = "ok") =>
                 closed = <<"ai_client", "memory">>
          /\ init_result # "ok" =>
                 /\ run_pc \in {"initialize", "returned"}
                 /\ polls = 0 /\ closed = <<>>)
    /\ [][(run_pc = "while" /\ stop_event) => run_pc' \in {"while", "shutdown"}]_vars
    /\ (stop_event ~> run_pc = "returned")

\* run() has returned after a stop request; shutdown cancelled a timer task
\* and a handle_event that was unwinding through its finally block
C31_Witness ==
    /\ run_pc = "returned"
    /\ stop_event
    /\ closed = <<"ai_client", "memory">>
    /\ \E t \in RunTaskIds :
          run_tasks[t].kind = "wait_and_reply" /\ run_tasks[t].must_cancel
    /\ \E t \in RunTaskIds :
          run_tasks[t].kind = "handle_event" /\ run_tasks[t].must_cancel

\* the executions admitted through semaphore object s and not yet released
AdmittedBy(s) == { r \in Reqs : Admitted(r) /\ semOf[r] = s }

\* C32: after a configuration reload has rebuilt the limiter, the executions
\* admitted before the reload (through an earlier semaphore) and those
\* admitted after it (through the current one) together never exceed
\* max_concurrency.
C32_ReloadKeepsCap ==
    reloads > 0 =>
        Cardinality(UNION { AdmittedBy(s) : s \in 1..sem }) <= max_concurrency

\* the four per-conversation maps of the coalescer, as "has an entry"
MergeEntries(c) ==
    <<pending_merge_messages[c] # <<>>, pending_merge_events[c] # 0,
      pending_merge_first_ts[c] # NoTs, pending_merge_tasks[c] # NoTask>>

\* this step is the flush of conversation c by its timer task
Flushes(c) ==
    \E t \in TaskIds :
        /\ Live(t) /\ tasks[t].fired /\ tasks[t].chat = c
        /\ tasks'[t].st = "done"

\* this step is the arrival of a coalescible message for conversation c
Arrives(c) ==
    /\ nextMsg' = nextMsg + 1
    /\ arrival'[nextMsg].chat = c
    /\ arrival'[nextMsg].kind = "text"

\* C33: outside the pending-merge critical sections a conversation has an
\* entry in all of pending_merge_messages, pending_merge_events,
\* pending_merge_first_ts and pending_merge_tasks, or in none of them; after
\* a flush it has none; and the arrival that follows starts a new burst with
\* its own arrival time as first-seen time.
C33_MapsAgree ==
    /\ [](\A c \in Chats :
            MergeEntries(c) \in {<<TRUE, TRUE, TRUE, TRUE>>,
                                 <<FALSE, FALSE, FALSE, FALSE>>})
    /\ [][\A c \in Chats :
            /\ Flushes(c) => MergeEntries(c)' = <<FALSE, FALSE, FALSE, FALSE>>
            /\ (Arrives(c) /\ MergeEntries(c) = <<FALSE, FALSE, FALSE, FALSE>>) =>
                  /\ pending_merge_first_ts'[c] = now
                  /\ pending_merge_messages'[c] = <<Content(nextMsg)>>
                  /\ pending_merge_events'[c] = nextMsg
                  /\ pending_merge_tasks'[c] = nextTask]_vars

\* a conversation was flushed and a later arrival has started a second burst
C33_Witness ==
    \E c \in Chats :
        /\ \E i \in 1..Len(handled) : handled[i].chat = c /\ handled[i].by # NoTask
        /\ MergeEntries(c) = <<TRUE, TRUE, TRUE, TRUE>>
        /\ pending_merge_first_ts[c] > 0
        /\ Len(pending_merge_messages[c]) = 1

\* C34: with stream_reply enabled a handled turn commits at most one (user,
\* assistant) pair: the synchronous fallback request is issued only when the
\* stream yielded no fragment, the stream has then committed nothing, and the
\* stream has released the conversation lock before the request is issued.
C34_OnePairPerTurn ==
    /\ [](\A r \in Reqs :
            /\ ~(stream_appended[r] # None /\ appended[r] # None)
            /\ fell_back[r] => (yielded[r] = <<>> /\ stream_appended[r] = None))
    /\ [][\A r \in Reqs :
            (fell_back'[r] /\ ~fell_back[r]) =>
                /\ lockOf[r] # NoLock
                /\ lockOwner[lockOf[r]] # r
                /\ \A i \in 1..Len(lockWaiters[lockOf[r]]) :
                      lockWaiters[lockOf[r]][i] # r]_vars

\* a stream that failed before its first fragment was followed by the
\* synchronous request, which committed the turn's only pair, while another
\* turn of the same conversation was served by its stream alone
C34_Witness ==
    \E r, q \in Reqs :
        /\ r # q /\ chatOf[r] = chatOf[q]
        /\ fell_back[r] /\ fails[r] > 0 /\ appended[r] = ReplyText(r)
        /\ ~fell_back[q] /\ yielded[q] # <<>> /\ appended[q] = ReplyText(q)

\* the _run_bot tasks that have not finished
Unfinished == { t \in DOMAIN bot_tasks : bot_tasks[t] = "running" }

\* this step is the locked body of start() of call k
StartStep(k) ==
    /\ k \in DOMAIN mgr_calls
    /\ mgr_calls[k].phase = "start" /\ mgr_calls[k].pc = "lock"
    /\ mgr_calls'[k].pc = "returned"

\* C35: BotManager runs at most one bot task at a time: start() while
\* is_running returns failure and creates neither a bot nor a task, and
\* under any order of start, stop and restart calls and of the bot ending by
\* itself there is never more than one unfinished _run_bot task.
C35_OneBotTask ==
    /\ [](Cardinality(Unfinished) <= 1)
    /\ [][\A k \in 1..MaxMgrCalls :
            (StartStep(k) /\ is_running) =>
                /\ ~mgr_calls'[k].ok
                /\ bot_tasks' = bot_tasks
                /\ bot' = bot /\ bot_task' = bot_task]_vars

\* a second bot runs after the first one has finished, a restart has
\* succeeded, and a start() was refused
C35_Witness ==
    /\ bot_tasks = <<"finished", "running">>
    /\ is_running
    /\ \E k \in DOMAIN mgr_calls :
          mgr_calls[k].op = "restart" /\ mgr_calls[k].pc = "returned" /\ mgr_calls[k].ok
    /\ \E k \in DOMAIN mgr_calls :
          mgr_calls[k].op = "start" /\ mgr_calls[k].pc = "returned" /\ ~mgr_calls[k].ok

\* C36: in every reachable state of BotManager is_paused implies is_running,
\* whatever the order of start, pause, resume and stop calls and of the bot
\* task ending by itself.
C36_PausedImpliesRunning == is_paused => is_running

\* C37: after BotManager.pause() has succeeded and until resume() succeeds,
\* the bot issues no AI request and sends no reply for the inbound messages
\* that arrive.
C37_PausedBotIsSilent ==
    is_paused =>
        \A r \in Reqs : r > paused_at => (posts[r] = 0 /\ result[r] = None)

(***************************************************************************)
(* Properties of the control commands                                      *)
(***************************************************************************)

\* execution r goes through the command check and the response check in this step
Checks(r) == gate[r] = "none" /\ gate'[r] # "none"

\* C38: with a non-empty control_allowed_users, a control command whose
\* sender is not in the list changes none of BotState.is_paused,
\* pause_reason and pause_time, and no command reply is sent for it.
C38_UnlistedSenderChangesNothing ==
    [][\A r \in Reqs :
          ( /\ Checks(r)
            /\ control_allowed_users # {}
            /\ last_event'.sender \notin control_allowed_users
            /\ IsCommandMessage(last_event'.content) )
          => (bot_state' = bot_state /\ command_replies' = command_replies)]_vars

\* the sender of the event being checked may use control commands
Permitted ==
    control_allowed_users = {} \/ last_event'.sender \in control_allowed_users

\* the command named by the content of the event being checked, "" when
\* it is not one of the control commands
CommandOf ==
    IF IsCommandMessage(last_event'.content) THEN Lower(last_event'.content.name) ELSE ""

\* /resume from a permitted sender is executed whenever the bot is paused,
\* /pause on a paused bot and /resume on a running bot change nothing
ResumeAndRepeats ==
    [][\A r \in Reqs : Checks(r) =>
          /\ (bot_state.is_paused /\ CommandOf = "resume" /\ Permitted)
                => (gate'[r] = "command" /\ ShouldRespond(bot_state'))
          /\ (bot_state.is_paused /\ CommandOf = "pause") => bot_state' = bot_state
          /\ (~bot_state.is_paused /\ CommandOf = "resume") => bot_state' = bot_state]_vars

\* C39 as stated: in no step taken while the bot is paused is an AI request
\* made or an AI reply obtained, /resume from a permitted sender is still
\* executed, and the repeated commands change nothing.
C39_SilentWhilePaused ==
    /\ [][(bot_state.is_paused /\ bot_state'.is_paused)
             => (posts' = posts /\ result' = result)]_vars
    /\ ResumeAndRepeats

\* C39, amended: an event that reaches the response check while the bot is
\* paused, and is not an executed command, is refused and never gets an AI
\* request or reply; an event that reaches it while the bot is not paused
\* passes; only events that passed get AI requests.  Events that passed the
\* check before /pause still get their request and reply.
C39_RefusedWhilePaused ==
    /\ [](\A r \in Reqs : gate[r] # "passed" => (posts[r] = 0 /\ result[r] = None))
    /\ [][\A r \in Reqs : (Checks(r) /\ gate'[r] # "command")
             => (gate'[r] = "refused" <=> bot_state.is_paused)]_vars
    /\ ResumeAndRepeats

\* a message was refused during a pause and got no AI request, and /resume
\* was then executed and ended the pause
C39_Witness ==
    /\ \E r \in Reqs : gate[r] = "refused" /\ pc[r] = "done" /\ posts[r] = 0
    /\ \E i \in 1..Len(command_replies) : command_replies[i].response = "resumed"
    /\ ~bot_state.is_paused

(***************************************************************************)
(* Properties of the command file                                          *)
(***************************************************************************)

\* how many times command c is among the commands get_commands returned
TimesGot(c) == Cardinality({ i \in 1..Len(cmd_got) : cmd_got[i] = c })

Holds(list, c) == \E i \in 1..Len(list) : list[i] = c

\* command c can still be returned: it is in the file, in the list a
\* running get_commands is about to return, or in a list a running
\* send_command is about to write
Pending(c) ==
    \/ Holds(cmd_file, c)
    \/ Holds(get_commands, c)
    \/ \E w \in WebCallers : Holds(send_commands[w], c)

\* C40: every command that send_command wrote is returned by exactly one
\* get_commands: it is never returned twice, and as long as it was not
\* returned it can still be.
C40_ExactlyOnce ==
    \A c \in cmd_sent :
        /\ TimesGot(c) <= 1
        /\ TimesGot(c) = 0 => Pending(c)

====
